---- MODULE Spec2Model ----
(***************************************************************************)
(* Verification model of the gazette record extraction engine             *)
(* (src/lib/recordParser.ts, src/lib/validator.ts, src/lib/parserEngine.ts).*)
(*                                                                         *)
(* Text is modelled as TLA+ strings and every regular expression of the    *)
(* source is modelled by a character-level scanner that does what the      *)
(* regular expression does (leftmost match, greedy quantifiers).           *)
(* JavaScript values: a null string is "null", an undefined string is      *)
(* "undefined", NaN and a null number are two numbers below every number    *)
(* the inputs can spell; a nullable array or object has a field "null".    *)
(***************************************************************************)
EXTENDS Integers, Sequences, FiniteSets, TLC

VARIABLES
    pc,         \* position of the operation under analysis
    lines,      \* input: the text lines of one page / one block
    blocks,     \* findStudentBlocks: RawStudentBlock[]
    records,    \* parseStudentBlock result of every block ("null" = rejected)
    idx,        \* loop index of the running loop
    rows,       \* extractMarkRows: the MarkRows accumulator
    response,   \* the parser service's response body (students, analysis)
    students,   \* StudentRecord[] handed to callers
    validation, \* validateParsedResult: ValidationResult
    analysis,   \* generateAnalysis: AnalysisSummary
    events,     \* the progress events passed to onProgress, in order
    aborted,    \* signal.aborted
    outcome,    \* how the running async function or generator has ended
    log,        \* the calls to collaborators, aborts and settlements, in order
    pageNum,    \* extractPdfText: the page of the running iteration
    totalPages, \* extractPdfText: pdf.numPages
    yielded,    \* extractPdfText: the page numbers yielded, in order
    rowTokens,  \* parseTotRow: the tokens of the row in the token walk
    items,      \* reconstructTableLines: the text items of the page
    resultsCache, \* resultFetcher: the cache entry of every file name
    now,        \* Date.now(), in minutes
    frames,     \* the running calls of fetchResults, the innermost first
    state,      \* useParser: the ParserState of the hook
    rendered    \* useParser: how many progress events the state has taken in

vars == <<pc, lines, blocks, records, idx, rows, response, students, validation, analysis,
          events, aborted, outcome, log, pageNum, totalPages, yielded, rowTokens,
          items, resultsCache, now, frames, state, rendered>>

\* the variables of the page reconstruction, the result fetcher and the hook
appVars == <<items, resultsCache, now, frames, state, rendered>>

\* the variables of the asynchronous operations
ioVars == <<events, aborted, outcome, log, pageNum, totalPages, yielded, rowTokens, appVars>>

----------------------------------------------------------------------------
(* JavaScript values *)

NULL == "null"
UNDEFINED == "undefined"
NaN == -1000000
NoNum == -1000001

IsNaN(x) == x = NaN

\* a + b on numbers: NaN is absorbing
JsAdd(a, b) == IF IsNaN(a) \/ IsNaN(b) THEN NaN ELSE a + b

\* a > b on numbers: false as soon as one side is NaN
JsGt(a, b) == ~IsNaN(a) /\ ~IsNaN(b) /\ a > b

----------------------------------------------------------------------------
(* Characters and scanners *)

Digit == {"0", "1", "2", "3", "4", "5", "6", "7", "8", "9"}
Upper == {"A", "B", "C", "D", "E", "F", "G", "H", "I", "J", "K", "L", "M",
          "N", "O", "P", "Q", "R", "S", "T", "U", "V", "W", "X", "Y", "Z"}
Lower == {"a", "b", "c", "d", "e", "f", "g", "h", "i", "j", "k", "l", "m",
          "n", "o", "p", "q", "r", "s", "t", "u", "v", "w", "x", "y", "z"}
Ws == {" ", "\t"}
DigitDot == Digit \cup {"."}
UpperPlus == Upper \cup {"+"}
GradeLetters == {"A", "B", "C", "D", "F", "O"}

Min(a, b) == IF a < b THEN a ELSE b
Max(a, b) == IF a > b THEN a ELSE b

\* the least element of a non-empty set of numbers
Least(S) == CHOOSE q \in S : \A r \in S : q <= r

\* the character of s at position i (1-based), "" past either end
Ch(s, i) == IF i >= 1 /\ i <= Len(s) THEN SubSeq(s, i, i) ELSE ""

\* s[a .. b-1]
Sub(s, a, b) == SubSeq(s, a, b - 1)

\* end of the longest run of characters of class C that starts at p (greedy C*)
Span(s, p, C) ==
    IF p > Len(s) THEN p
    ELSE CHOOSE q \in p..(Len(s) + 1) :
             /\ q = Len(s) + 1 \/ Ch(s, q) \notin C
             /\ \A r \in p..(q - 1) : Ch(s, r) \in C

\* end of the longest run of characters outside class C that starts at p
SpanNot(s, p, C) ==
    IF p > Len(s) THEN p
    ELSE CHOOSE q \in p..(Len(s) + 1) :
             /\ q = Len(s) + 1 \/ Ch(s, q) \in C
             /\ \A r \in p..(q - 1) : Ch(s, r) \notin C

\* the ends of the runs of the given classes, one after the other, from p on
RECURSIVE Scan(_, _, _)
Scan(s, p, classes) ==
    IF Len(classes) = 0 THEN <<>>
    ELSE <<Span(s, p, Head(classes))>>
         \o Scan(s, Span(s, p, Head(classes)), Tail(classes))

\* String.prototype.startsWith
StartsWith(s, t) == Len(s) >= Len(t) /\ SubSeq(s, 1, Len(t)) = t

\* last position of s[1..q] that holds no blank, 0 if there is none
TrimEnd(s, q) ==
    IF \A r \in 1..q : Ch(s, r) \in Ws THEN 0
    ELSE CHOOSE e \in 1..q :
             /\ Ch(s, e) \notin Ws
             /\ \A r \in (e + 1)..q : Ch(s, r) \in Ws

\* String.prototype.trim
Trim(s) == SubSeq(s, Span(s, 1, Ws), TrimEnd(s, Len(s)))

DigitVal(c) == CHOOSE d \in 0..9 : SubSeq("0123456789", d + 1, d + 1) = c

\* value of the digit string s[a .. b-1], most significant digit first
RECURSIVE DigitsVal(_, _, _)
DigitsVal(s, a, b) == IF b <= a THEN 0
                      ELSE 10 * DigitsVal(s, a, b - 1) + DigitVal(Ch(s, b - 1))

\* the number whose digits are s[a .. b-1], NaN if there is no digit
NumberAt(s, a, b) == IF b = a THEN NaN ELSE DigitsVal(s, a, b)

\* the number read at a whose digits start at d (after a sign, if any)
SignedAt(s, a, value) ==
    IF IsNaN(value) THEN NaN ELSE IF Ch(s, a) = "-" THEN 0 - value ELSE value

\* the position after the sign at a, if there is one
AfterSign(s, a) == IF Ch(s, a) \in {"+", "-"} THEN a + 1 ELSE a

SignedInt(s, a, d) == SignedAt(s, a, NumberAt(s, d, Span(s, d, Digit)))

\* parseInt(s, 10): leading whitespace, a sign, then the longest digit prefix
ParseInt(s) == SignedInt(s, Span(s, 1, Ws), AfterSign(s, Span(s, 1, Ws)))

\* parseFloat in hundredths of the text whose integer digits are s[a .. b-1] and
\* whose fraction digits, if hasDot, are s[b+1 .. c-1] (digits after the second
\* decimal are dropped)
FloatVal(s, a, b, hasDot, c) ==
    IF b = a /\ (~hasDot \/ c = b + 1) THEN NaN
    ELSE 100 * DigitsVal(s, a, b)
         + (IF hasDot /\ c > b + 1 THEN 10 * DigitVal(Ch(s, b + 1)) ELSE 0)
         + (IF hasDot /\ c > b + 2 THEN DigitVal(Ch(s, b + 2)) ELSE 0)

FloatAt(s, a, b) == FloatVal(s, a, b, Ch(s, b) = ".", Span(s, b + 1, Digit))

SignedFloat(s, a, d) == SignedAt(s, a, FloatAt(s, d, Span(s, d, Digit)))

\* parseFloat(s) in hundredths: blanks, a sign, digits, then an optional "." and
\* digits
ParseFloat(s) == SignedFloat(s, Span(s, 1, Ws), AfterSign(s, Span(s, 1, Ws)))

\* String.prototype.split on one separator character
RECURSIVE SplitOn(_, _)
SplitOn(s, sep) ==
    IF SpanNot(s, 1, {sep}) = Len(s) + 1 THEN <<s>>
    ELSE <<Sub(s, 1, SpanNot(s, 1, {sep}))>>
         \o SplitOn(SubSeq(s, SpanNot(s, 1, {sep}) + 1, Len(s)), sep)

\* Array.prototype.join
RECURSIVE Join(_, _)
Join(ls, sep) == IF Len(ls) = 0 THEN ""
                 ELSE IF Len(ls) = 1 THEN ls[1]
                 ELSE ls[1] \o sep \o Join(Tail(ls), sep)

\* the maximal runs of non-blank characters of s from position a on, a being the
\* start of a run or past the end
RECURSIVE TokensFrom(_, _)
TokensFrom(s, a) ==
    IF a > Len(s) THEN <<>>
    ELSE <<Sub(s, a, SpanNot(s, a, Ws))>>
         \o TokensFrom(s, Span(s, SpanNot(s, a, Ws), Ws))

Tokens(s) == TokensFrom(s, Span(s, 1, Ws))

\* t.split(/\s+/) of a trimmed string t: the empty string splits into one empty token
SplitTrimmed(t) == IF t = "" THEN <<"">> ELSE Tokens(t)

\* s.trim().split(/\s+/)
SplitWs(s) == SplitTrimmed(Trim(s))

\* replace(/\s+/g, " ")
NormalizeWs(s) ==
    (IF Ch(s, 1) \in Ws THEN " " ELSE "")
    \o Join(Tokens(s), " ")
    \o (IF Len(s) > 0 /\ Ch(s, Len(s)) \in Ws /\ Len(Tokens(s)) > 0 THEN " " ELSE "")

----------------------------------------------------------------------------
(* Reference tables *)

\* SUBJECT_CODES: the curriculum subject codes in gazette order
SUBJECT_CODES == <<"10411", "10412", "10413", "10414", "10415", "10416", "10417",
                   "10418", "10419", "10420", "10421", "10422", "10423", "10424">>

NUM_SUBJECTS == Len(SUBJECT_CODES)

\* SUBJECT_NAMES: subject code -> subject name
SUBJECT_NAMES ==
    [c \in {SUBJECT_CODES[i] : i \in 1..Len(SUBJECT_CODES)} |->
       CASE c = "10411" -> "Applied Mathematics-I"
         [] c = "10412" -> "Applied Physics"
         [] c = "10413" -> "Applied Chemistry"
         [] c = "10414" -> "Engineering Mechanics"
         [] c = "10415" -> "Basic Electrical & Electronics Engineering"
         [] c = "10416" -> "Applied Physics Lab"
         [] c = "10417" -> "Applied Chemistry Lab"
         [] c = "10418" -> "Engineering Mechanics Lab"
         [] c = "10419" -> "Basic Electrical & Electronics Lab"
         [] c = "10420" -> "Professional Communication Ethics"
         [] c = "10421" -> "Professional Communication Ethics TW"
         [] c = "10422" -> "Engineering Workshop-I"
         [] c = "10423" -> "C Programming"
         [] c = "10424" -> "Induction cum Universal Human Values"]

----------------------------------------------------------------------------
(* Registration numbers (ERN) *)

\* /^MU\d{16}$/ on a trimmed text
IsErnText(t) == Len(t) = 18 /\ SubSeq(t, 1, 2) = "MU" /\ Span(t, 3, Digit) = 19

\* isValidErn(ern): /^MU\d{16}$/.test(ern.trim())
isValidErn(ern) == IsErnText(Trim(ern))

\* a regular-expression match m (NULL = no match) whose group is a valid number
ValidMatch(m) == m # NULL /\ isValidErn(m)

\* "MU" and at least n digits start at position p of s
MuAt(s, p, n) == /\ Ch(s, p) = "M" /\ Ch(s, p + 1) = "U"
                 /\ Span(s, p + 2, Digit) >= p + 2 + n

\* the 18 characters at the least position of ps, NULL if ps is empty
ErnAt(s, ps) == IF ps = {} THEN NULL ELSE SubSeq(s, Least(ps), Least(ps) + 17)

\* capture group of the leftmost match of /\(?\s*(MU\d{16})\s*\)?/ in s, or NULL
\* (the optional parenthesis and blanks around the group never decide a match)
FullErnMatch(s) == ErnAt(s, {p \in 1..Len(s) : MuAt(s, p, 16)})

\* capture group of the leftmost match of /\(?\s*(MU\d{16})\s*(?:\s|$|\))/, or NULL:
\* 16 digits, then a blank, the end of the line or ")"
OpenErnMatch(s) ==
    ErnAt(s, {p \in 1..Len(s) :
                 /\ MuAt(s, p, 16)
                 /\ \/ Span(s, p + 18, Ws) > p + 18
                    \/ Span(s, p + 18, Ws) > Len(s)
                    \/ Ch(s, Span(s, p + 18, Ws)) = ")"})

\* "MU" and its digits at the least position of ps, NULL if ps is empty
PartialAt(s, ps) ==
    IF ps = {} THEN NULL ELSE Sub(s, Least(ps), Span(s, Least(ps) + 2, Digit))

\* the text after the digits that follow "MU" at p is blank up to the end of the
\* line or up to ")"
PartialTail(s, e) == e > Len(s) \/ Ch(s, e) = ")"

\* capture group of the leftmost match of /\(?\s*(MU\d{1,15})\s*(?:\s*$|\))/, or NULL:
\* "MU" and 1..15 digits followed, after blanks, by the end of the line or ")"
PartialErnMatch(s) ==
    PartialAt(s, {p \in 1..Len(s) :
                     /\ MuAt(s, p, 1)
                     /\ Span(s, p + 2, Digit) - (p + 2) <= 15
                     /\ PartialTail(s, Span(s, Span(s, p + 2, Digit), Ws))})

\* capture group of /^(\d{1,16})\s*\)?/ on s, or NULL
RemainingDigitsMatch(s) ==
    IF Span(s, 1, Digit) = 1 THEN NULL ELSE Sub(s, 1, Min(Span(s, 1, Digit), 17))

----------------------------------------------------------------------------
(* Block Segmenter *)

\* /^\s*(\d{7})\s+([A-Z]+(?:\s+[A-Z]+)*)\s*/ : end of the name group, q being
\* just after one of its [A-Z]+ runs
RECURSIVE NameEnd(_, _)
NameEnd(s, q) ==
    LET w == Span(s, q, Ws)
        u == Span(s, w, Upper)
    IN IF w > q /\ u > w THEN NameEnd(s, u) ELSE q

\* the name group starts at c, after the blanks that start at b, and is longer
\* than 5 characters
SeatNameAt(line, b, c) ==
    /\ c > b
    /\ Span(line, c, Upper) > c
    /\ Len(Trim(Sub(line, c, NameEnd(line, Span(line, c, Upper))))) > 5

\* 7 digits at position a, blanks, then the name group
SeatLineAt(line, a) ==
    /\ Span(line, a, Digit) >= a + 7
    /\ SeatNameAt(line, a + 7, Span(line, a + 7, Ws))

\* isSeatNumberLine(line)
isSeatNumberLine(line) == SeatLineAt(line, Span(line, 1, Ws))

\* a push that takes the line after the block for its last line
PushBlockOneLineMore(acc, currentBlock, pageNumber, blockStart, lineEnd) ==
    IF Len(currentBlock) > 0 /\ blockStart >= 0
    THEN Append(acc, [text |-> Join(currentBlock, "\n"),
                      pageNumber |-> pageNumber,
                      lineStart |-> blockStart,
                      lineEnd |-> lineEnd + 1,
                      pendingErn |-> UNDEFINED])
    ELSE acc

\* blocks.push({text, pageNumber, lineStart, lineEnd}) if a block is open
PushBlock(acc, currentBlock, pageNumber, blockStart, lineEnd) ==
    IF Len(currentBlock) > 0 /\ blockStart >= 0
    THEN Append(acc, [text |-> Join(currentBlock, "\n"),
                      pageNumber |-> pageNumber,
                      lineStart |-> blockStart,
                      lineEnd |-> lineEnd,
                      pendingErn |-> UNDEFINED])
    ELSE acc

\* the first loop of findStudentBlocks from line i (0-based) on, with the
\* blocks pushed so far, the current block and its start line
RECURSIVE CollectBlocks(_, _, _, _, _, _)
CollectBlocks(ls, pageNumber, i, acc, currentBlock, blockStart) ==
    IF i >= Len(ls)
    THEN PushBlock(acc, currentBlock, pageNumber, blockStart, Len(ls) - 1)
    ELSE IF isSeatNumberLine(ls[i + 1])
         THEN CollectBlocks(ls, pageNumber, i + 1,
                            PushBlock(acc, currentBlock, pageNumber, blockStart, i - 1),
                            <<ls[i + 1]>>, i)
    ELSE IF blockStart >= 0
         THEN CollectBlocks(ls, pageNumber, i + 1, acc,
                            Append(currentBlock, ls[i + 1]), blockStart)
    ELSE CollectBlocks(ls, pageNumber, i + 1, acc, currentBlock, blockStart)

\* the match of the first line (0-based index in hits) that holds one
FirstErn(blockLines, hits) ==
    IF hits = {} THEN UNDEFINED ELSE FullErnMatch(blockLines[Least(hits) + 1])

\* the variant of the trailing scan in which the last match wins
TrailingErnLastMatch(blockLines) ==
    LET hits == {j \in Max(10, Len(blockLines) - 8)..(Len(blockLines) - 1) :
                    ValidMatch(FullErnMatch(blockLines[j + 1]))}
    IN IF hits = {} THEN UNDEFINED
       ELSE FullErnMatch(blockLines[(CHOOSE j \in hits : \A k \in hits : k <= j) + 1])

\* the trailing scan over the lines of one block:
\* j = max(10, length - 8) .. length - 1 (0-based), the first match wins
TrailingErnIn(blockLines) ==
    FirstErn(blockLines,
             {j \in Max(10, Len(blockLines) - 8)..(Len(blockLines) - 1) :
                 ValidMatch(FullErnMatch(blockLines[j + 1]))})

\* the registration number the trailing scan finds in a block, or UNDEFINED
TrailingErn(block) == TrailingErnIn(SplitOn(block.text, "\n"))

\* blocks[i + 1].pendingErn = match[1]
WithPending(block, ern) ==
    IF ern # UNDEFINED THEN [block EXCEPT !.pendingErn = ern] ELSE block

\* a hand-over in which every later block receives the registration number found
\* in the trailing lines of the first block
AttachPendingFromFirst(bs) ==
    [i \in 1..Len(bs) |->
        WithPending(bs[i], IF i > 1 THEN TrailingErn(bs[1]) ELSE UNDEFINED)]

\* the second loop of findStudentBlocks: each block but the first receives the
\* registration number found in the trailing lines of the block before it
AttachPending(bs) ==
    [i \in 1..Len(bs) |->
        WithPending(bs[i], IF i > 1 THEN TrailingErn(bs[i - 1]) ELSE UNDEFINED)]

\* findStudentBlocks(lines, pageNumber)
findStudentBlocks(ls, pageNumber) ==
    AttachPending(CollectBlocks(ls, pageNumber, 0, <<>>, <<>>, -1))

----------------------------------------------------------------------------
(* Header Field Extractor *)

\* one iteration of the first loop over the header lines, given the three matches
\* on line i and the digits at the start of line i + 1: direct match, same-line
\* match, then cross-line reassembly; NULL if none
HeaderErnPick(fullMatch, openMatch, partialMatch, remainingDigits) ==
    IF ValidMatch(fullMatch) THEN fullMatch
    ELSE IF ValidMatch(openMatch) THEN openMatch
    ELSE IF /\ partialMatch # NULL
            /\ remainingDigits # NULL
            /\ isValidErn(partialMatch \o remainingDigits)
         THEN partialMatch \o remainingDigits
    ELSE NULL

\* the registration number found on header line i (0-based), or NULL
HeaderErnAt(ls, i) ==
    HeaderErnPick(FullErnMatch(Trim(ls[i + 1])),
                  OpenErnMatch(Trim(ls[i + 1])),
                  PartialErnMatch(Trim(ls[i + 1])),
                  IF i + 1 < Len(ls) THEN RemainingDigitsMatch(Trim(ls[i + 2]))
                  ELSE NULL)

\* the first loop over the header lines (i < min(length, 5)), from line i on
RECURSIVE HeaderErnSearch(_, _)
HeaderErnSearch(ls, i) ==
    IF i >= Min(Len(ls), 5) THEN NULL
    ELSE IF HeaderErnAt(ls, i) # NULL THEN HeaderErnAt(ls, i)
    ELSE HeaderErnSearch(ls, i + 1)

\* the broader search over the lines from index 5 on, from line i: direct match only
RECURSIVE BroadErnSearch(_, _)
BroadErnSearch(ls, i) ==
    IF i >= Len(ls) THEN NULL
    ELSE IF ValidMatch(FullErnMatch(Trim(ls[i + 1])))
         THEN FullErnMatch(Trim(ls[i + 1]))
    ELSE BroadErnSearch(ls, i + 1)

\* if (!ern) { broader search }
OrBroadSearch(ern, ls) == IF ern # NULL THEN ern ELSE BroadErnSearch(ls, 5)

\* the registration number found in the block's own lines, or NULL
OwnErn(ls) == OrBroadSearch(HeaderErnSearch(ls, 0), ls)

NullHeader == [null |-> TRUE]

\* the header built with the pending registration number taking precedence over
\* the block's own
HeaderFieldsPendingFirst(firstLine, a, ern, pendingErn) ==
    IF Span(firstLine, a, Digit) < a + 7 THEN NullHeader
    ELSE [null |-> FALSE,
          seatNumber |-> SubSeq(firstLine, a, a + 6),
          ern |-> IF pendingErn # UNDEFINED /\ pendingErn # "" /\ isValidErn(pendingErn)
                  THEN pendingErn ELSE ern]

\* the header from the first line (its seat number starts at a), the block's own
\* registration number and the pending one: the pending one is the last resort
HeaderFields(firstLine, a, ern, pendingErn) ==
    IF Span(firstLine, a, Digit) < a + 7 THEN NullHeader
    ELSE [null |-> FALSE,
          seatNumber |-> SubSeq(firstLine, a, a + 6),
          ern |-> IF ern = NULL /\ pendingErn # UNDEFINED /\ pendingErn # ""
                     /\ isValidErn(pendingErn)
                  THEN pendingErn ELSE ern]

\* parseHeaderLine(lines, pendingErn): seat number and registration number
\* (null when the first line does not start with 7 digits)
parseHeaderLine(ls, pendingErn) ==
    HeaderFields(ls[1], Span(ls[1], 1, Ws), OwnErn(ls), pendingErn)

----------------------------------------------------------------------------
(* Mark-Row Parser *)

\* the first match of /@\d+/ in s from position p on: value of its digits, or NoNum
RECURSIVE GraceIn(_, _)
GraceIn(s, p) ==
    IF p > Len(s) THEN NoNum
    ELSE IF Ch(s, p) = "@" /\ Span(s, p + 1, Digit) > p + 1
         THEN DigitsVal(s, p + 1, Span(s, p + 1, Digit))
    ELSE GraceIn(s, p + 1)

\* marks + grace
WithGrace(marks, grace) == IF grace # NoNum THEN marks + grace ELSE marks

\* one part of a component row: /^(\d+)(?:\s*@\d+)?/ then /@\d+/ ; NoNum = no mark
ComponentMark(part) ==
    IF Span(part, 1, Digit) = 1 THEN NoNum
    ELSE WithGrace(DigitsVal(part, 1, Span(part, 1, Digit)), GraceIn(part, 1))

RECURSIVE ComponentMarks(_)
ComponentMarks(parts) ==
    IF Len(parts) = 0 THEN <<>>
    ELSE (IF ComponentMark(parts[1]) # NoNum THEN <<ComponentMark(parts[1])>> ELSE <<>>)
         \o ComponentMarks(Tail(parts))

\* parseComponentRow(content)
parseComponentRow(content) ==
    [null |-> FALSE, marks |-> ComponentMarks(SplitOn(NormalizeWs(Trim(content)), " "))]

NullRow == [null |-> TRUE, marks |-> <<>>]

NoQuint == [ok |-> FALSE]

\* end of the grade that starts at e: [A-Z][A-Z+]* in the strict grammar,
\* [ABCDFO][+]? in the alternate one (e itself if there is no grade)
GradeEnd(s, e, alt) ==
    IF alt
    THEN (IF Ch(s, e) \in GradeLetters
          THEN (IF Ch(s, e + 1) = "+" THEN e + 2 ELSE e + 1)
          ELSE e)
    ELSE (IF Ch(s, e) \in Upper THEN Span(s, e + 1, UpperPlus) ELSE e)

\* the quintuple whose fields end at the given positions: q is the end of the
\* total, pre = <<c, d, e>> the ends of \s+ (\d+) \s+, f the end of the grade,
\* post = <<g, h, i, j>> the ends of \s+ ([\d.]+) \s+ ([\d.]+)
QuintFields(s, q, total, pre, f, post) ==
    IF /\ pre[1] > q /\ pre[2] > pre[1] /\ pre[3] > pre[2] /\ f > pre[3]
       /\ post[1] > f /\ post[2] > post[1] /\ post[3] > post[2] /\ post[4] > post[3]
    THEN [ok |-> TRUE, end |-> post[4],
          sub |-> [total |-> total,
                   gp |-> DigitsVal(s, pre[1], pre[2]),
                   grade |-> Sub(s, pre[3], f),
                   credits |-> ParseFloat(Sub(s, post[1], post[2])),
                   creditPoints |-> ParseFloat(Sub(s, post[3], post[4]))]]
    ELSE NoQuint

QuintGrade(s, q, total, alt, pre) ==
    QuintFields(s, q, total, pre, GradeEnd(s, pre[3], alt),
                Scan(s, GradeEnd(s, pre[3], alt), <<Ws, DigitDot, Ws, DigitDot>>))

\* the fields after the total of an aggregate quintuple, from position q on:
\* \s+(\d+)\s+(grade)\s+([\d.]+)\s+([\d.]+)
QuintRest(s, q, total, alt) == QuintGrade(s, q, total, alt, Scan(s, q, <<Ws, Digit, Ws>>))

\* the match with the grace group if there is one, else the match without it
QuintPick(withGrace, without) == IF withGrace.ok THEN withGrace ELSE without

\* (\d+\+?) ends at b (its digits at a), the blanks after it at w and the digits
\* after an "@" at g
QuintTotal(s, p, alt, a, b, w, g) ==
    IF a = p THEN NoQuint
    ELSE QuintPick(IF Ch(s, w) = "@" /\ g > w + 1
                   THEN QuintRest(s, g, DigitsVal(s, p, a) + DigitsVal(s, w + 1, g), alt)
                   ELSE NoQuint,
                   QuintRest(s, b, DigitsVal(s, p, a), alt))

QuintPlus(s, p, alt, a, b) ==
    QuintTotal(s, p, alt, a, b, Span(s, b, Ws), Span(s, Span(s, b, Ws) + 1, Digit))

\* a match of the aggregate pattern that starts exactly at position p:
\* (\d+\+?)(?:\s*@(\d+))? and the rest, first with the grace group, then without
QuintAt(s, p, alt) ==
    QuintPlus(s, p, alt, Span(s, p, Digit),
              IF Ch(s, Span(s, p, Digit)) = "+" THEN Span(s, p, Digit) + 1
              ELSE Span(s, p, Digit))

\* pattern.exec loop with the g flag: leftmost match at or after p, then on from its end
RECURSIVE ExecAll(_, _, _)
ExecAll(s, p, alt) ==
    IF p > Len(s) THEN <<>>
    ELSE LET m == QuintAt(s, p, alt)
         IN IF m.ok THEN <<m.sub>> \o ExecAll(s, m.end, alt)
            ELSE ExecAll(s, p + 1, alt)

UpperOf(c) == IF c \in Lower
              THEN CHOOSE u \in Upper :
                     \E k \in 1..26 : SubSeq("abcdefghijklmnopqrstuvwxyz", k, k) = c
                                      /\ SubSeq("ABCDEFGHIJKLMNOPQRSTUVWXYZ", k, k) = u
              ELSE c

RECURSIVE ToUpperCase(_)
ToUpperCase(s) == IF Len(s) = 0 THEN ""
                  ELSE UpperOf(Ch(s, 1)) \o ToUpperCase(SubSeq(s, 2, Len(s)))

\* /^[ABCDFO][+]?$/i
IsGradeLetter(s) ==
    /\ Len(s) \in {1, 2}
    /\ UpperOf(Ch(s, 1)) \in GradeLetters
    /\ (Len(s) = 2 => Ch(s, 2) = "+")

\* /^(\d+\+?)(@\d+)?$/ on a token whose digits end at a and whose (\d+\+?) ends at
\* b: [ok, a, grace group present, start of its digits]
TotalTokenAt(t, a, b) ==
    IF a = 1 THEN [ok |-> FALSE, a |-> a, grace |-> FALSE]
    ELSE IF b > Len(t) THEN [ok |-> TRUE, a |-> a, grace |-> FALSE]
    ELSE IF Ch(t, b) = "@" /\ b + 1 <= Len(t) /\ Span(t, b + 1, Digit) > Len(t)
         THEN [ok |-> TRUE, a |-> a, grace |-> TRUE, g |-> b + 1]
    ELSE [ok |-> FALSE, a |-> a, grace |-> FALSE]

TotalTokenMatch(t) ==
    TotalTokenAt(t, Span(t, 1, Digit),
                 IF Ch(t, Span(t, 1, Digit)) = "+" THEN Span(t, 1, Digit) + 1
                 ELSE Span(t, 1, Digit))

\* /^([A-Z+]+)(\d+(?:\.\d+)?)$/i on a token whose letters end at a and whose
\* integer digits end at b: [ok, a]
MergedAt(t, a, b) ==
    [ok |-> /\ a > 1
            /\ b > a
            /\ (IF Ch(t, b) = "." /\ Span(t, b + 1, Digit) > b + 1
                THEN Span(t, b + 1, Digit) ELSE b) > Len(t),
     a |-> a]

MergedMatch(t) ==
    MergedAt(t, Span(t, 1, UpperPlus \cup Lower),
             Span(t, Span(t, 1, UpperPlus \cup Lower), Digit))

\* the token gradeToken is a grade merged with the credits ("F3")
IsMerged(gradeToken, mergedMatch) ==
    mergedMatch.ok /\ IsGradeLetter(Sub(gradeToken, 1, mergedMatch.a))

\* total of the token walk: the token's digits plus the grace marks of the group
\* merged into the token or of a separate "@" token that follows
WalkTotalOf(tokens, i, totalMatch, sepGrace) ==
    IF totalMatch.grace
    THEN DigitsVal(tokens[i + 1], 1, totalMatch.a)
         + DigitsVal(tokens[i + 1], totalMatch.g, Len(tokens[i + 1]) + 1)
    ELSE IF sepGrace
         THEN JsAdd(DigitsVal(tokens[i + 1], 1, totalMatch.a),
                    ParseInt(SubSeq(tokens[i + 2], 2, Len(tokens[i + 2]))))
    ELSE DigitsVal(tokens[i + 1], 1, totalMatch.a)

\* the token-walk loop of parseTotRow: one iteration from token index i (0-based)
\* on yields the index the next iteration starts at and the subject it pushes, if
\* any; the steps of an iteration follow: total, grade point, grade (and merged
\* credits), credits, credit points
NoSubject == [total |-> 0, gp |-> 0, grade |-> "", credits |-> 0, creditPoints |-> 0]

\* F applied to the value of v, which is computed once
Once(F(_), v) == CHOOSE r \in {F(x) : x \in {v}} : TRUE

\* a continue that leaves the index where the failed iteration started
WalkSkipInPlace(i) == [i |-> i - 1, pushed |-> FALSE, sub |-> NoSubject]

\* continue: the next iteration starts at i, nothing is pushed
WalkSkip(i) == [i |-> i, pushed |-> FALSE, sub |-> NoSubject]

\* credit points read at i4; the subject is pushed if its grade is a grade letter
WalkPush(tokens, total, gp, grade, credits, creditPoints, i4) ==
    IF IsNaN(creditPoints) THEN WalkSkip(i4)
    ELSE [i |-> i4 + 1,
          pushed |-> IsGradeLetter(grade),
          sub |-> [total |-> total, gp |-> gp, grade |-> grade, credits |-> credits,
                   creditPoints |-> creditPoints]]

\* credits read; i4 is the index after them
WalkCredits(tokens, total, gp, grade, credits, i4) ==
    IF IsNaN(credits) THEN WalkSkip(i4)
    ELSE IF i4 >= Len(tokens) THEN WalkSkip(i4)
    ELSE WalkPush(tokens, total, gp, grade, credits, ParseFloat(tokens[i4 + 1]), i4)

\* grade token read; i3 is the index after it
WalkGrade(tokens, total, gp, gradeToken, merged, a, i3) ==
    Once(LAMBDA v : WalkCredits(tokens, total, gp, v[1], v[2], v[3]),
         <<IF merged THEN ToUpperCase(Sub(gradeToken, 1, a)) ELSE gradeToken,
           IF merged THEN ParseFloat(SubSeq(gradeToken, a, Len(gradeToken)))
           ELSE IF i3 < Len(tokens) THEN ParseFloat(tokens[i3 + 1]) ELSE NaN,
           IF merged THEN i3 ELSE i3 + 1>>)

\* total read; i1 is the index after it (and after its grace token)
WalkGp(tokens, total, i1) ==
    IF i1 >= Len(tokens) \/ IsNaN(ParseInt(tokens[i1 + 1])) THEN WalkSkip(i1)
    ELSE IF i1 + 1 >= Len(tokens) THEN WalkSkip(i1 + 1)
    ELSE Once(LAMBDA v : WalkGrade(tokens, total, v[1], tokens[i1 + 2], v[2], v[3],
                                   i1 + 2),
              <<ParseInt(tokens[i1 + 1]),
                IsMerged(tokens[i1 + 2], MergedMatch(tokens[i1 + 2])),
                MergedMatch(tokens[i1 + 2]).a>>)

\* the total token matched; sepGrace: the next token starts with "@"
WalkTotal(tokens, i, totalMatch, sepGrace) ==
    IF ~totalMatch.ok THEN WalkSkip(i + 1)
    ELSE Once(LAMBDA v : WalkGp(tokens, v[1], v[2]),
              <<WalkTotalOf(tokens, i, totalMatch, sepGrace),
                IF sepGrace THEN i + 2 ELSE i + 1>>)

WalkToken(tokens, i, totalMatch) ==
    Once(LAMBDA sepGrace : WalkTotal(tokens, i, totalMatch, sepGrace),
         /\ ~totalMatch.grace
         /\ i + 1 < Len(tokens)
         /\ StartsWith(tokens[i + 2], "@"))

\* one iteration of while (i < tokens.length)
WalkIteration(tokens, i) ==
    IF Ch(tokens[i + 1], 1) \notin Digit THEN WalkSkip(i + 1)
    ELSE Once(LAMBDA totalMatch : WalkToken(tokens, i, totalMatch),
              TotalTokenMatch(tokens[i + 1]))

\* the subjects after an iteration
WalkSubjects(subjects, step) ==
    IF step.pushed THEN Append(subjects, step.sub) ELSE subjects

RECURSIVE TokenWalk(_, _, _)

WalkOn(tokens, subjects, step) == TokenWalk(tokens, step.i, WalkSubjects(subjects, step))

\* the whole loop from token index i on
TokenWalk(tokens, i, subjects) ==
    IF i >= Len(tokens) THEN subjects
    ELSE WalkOn(tokens, subjects, WalkIteration(tokens, i))

\* the first grammar that yields a subject decides
FirstNonEmpty(strict, alternate, walked) ==
    IF Len(strict) > 0 THEN strict
    ELSE IF Len(alternate) > 0 THEN alternate
    ELSE walked

\* parseTotRow(content): strict grammar, alternate grammar, token walk
parseTotRow(content) ==
    FirstNonEmpty(ExecAll(content, 1, FALSE), ExecAll(content, 1, TRUE),
                  TokenWalk(SplitWs(content), 0, <<>>))

\* reduce((sum, s) => sum + s.total, 0)
RECURSIVE SumTotals(_)
SumTotals(tot) == IF Len(tot) = 0 THEN 0
                  ELSE JsAdd(SumTotals(SubSeq(tot, 1, Len(tot) - 1)), tot[Len(tot)].total)

EmptyMarkRows == [T1 |-> NullRow, O1 |-> NullRow, E1 |-> NullRow, I1 |-> NullRow,
                  TOT |-> <<>>]

\* line.replace(/^\s*XX\s*/, "") for a line that starts with the label
AfterLabel(s, label) == SubSeq(s, Span(s, Len(label) + 1, Ws), Len(s))

\* whether the freshly parsed aggregate row replaces the retained one
BetterTot(parsedTot, kept) ==
    \/ Len(parsedTot) > Len(kept)
    \/ /\ Len(parsedTot) = Len(kept)
       /\ JsGt(SumTotals(parsedTot), SumTotals(kept))

\* rows.TOT = parsedTot if it is the better one
KeepBetterTot(r, parsedTot) ==
    IF BetterTot(parsedTot, r.TOT) THEN [r EXCEPT !.TOT = parsedTot] ELSE r

\* one iteration of the loop of extractMarkRows on the normalised line
ExtractTrimmed(r, trimmedLine) ==
    IF StartsWith(trimmedLine, "T1")
    THEN [r EXCEPT !.T1 = parseComponentRow(AfterLabel(trimmedLine, "T1"))]
    ELSE IF StartsWith(trimmedLine, "O1")
    THEN [r EXCEPT !.O1 = parseComponentRow(AfterLabel(trimmedLine, "O1"))]
    ELSE IF StartsWith(trimmedLine, "E1")
    THEN [r EXCEPT !.E1 = parseComponentRow(AfterLabel(trimmedLine, "E1"))]
    ELSE IF StartsWith(trimmedLine, "I1")
    THEN [r EXCEPT !.I1 = parseComponentRow(AfterLabel(trimmedLine, "I1"))]
    ELSE IF StartsWith(trimmedLine, "TOT")
    THEN KeepBetterTot(r, parseTotRow(AfterLabel(trimmedLine, "TOT")))
    ELSE r

\* one iteration of the loop of extractMarkRows
ExtractLine(r, line) == ExtractTrimmed(r, NormalizeWs(Trim(line)))

\* extractMarkRows(lines)
RECURSIVE extractMarkRows(_)
extractMarkRows(ls) ==
    IF Len(ls) = 0 THEN EmptyMarkRows
    ELSE ExtractLine(extractMarkRows(SubSeq(ls, 1, Len(ls) - 1)), ls[Len(ls)])

----------------------------------------------------------------------------
(* The component rows as the second copy of the record parser reads them    *)
(* (src/unnamed/part_003)                                                   *)

\* part.match(/^(\d+)/) and parseInt(numMatch[1], 10): the digits part[1 .. e-1]
LeadingNumber(part, e) == IF e > 1 THEN <<NumberAt(part, 1, e)>> ELSE <<>>

\* for (const part of parts) ... marks.push(parseInt(numMatch[1], 10))
RECURSIVE LeadingNumbers(_)
LeadingNumbers(parts) ==
    IF Len(parts) = 0 THEN <<>>
    ELSE LeadingNumber(Head(parts), Span(Head(parts), 1, Digit))
         \o LeadingNumbers(Tail(parts))

\* parseComponentRow(content) of part_003
parseComponentRow_part003(content) ==
    [null |-> FALSE, marks |-> LeadingNumbers(SplitWs(content))]

\* the component-row branches of the loop of extractMarkRows of part_003
ExtractComponent_part003(r, trimmedLine) ==
    IF StartsWith(trimmedLine, "T1")
    THEN [r EXCEPT !.T1 = parseComponentRow_part003(SubSeq(trimmedLine, 3, Len(trimmedLine)))]
    ELSE IF StartsWith(trimmedLine, "O1")
    THEN [r EXCEPT !.O1 = parseComponentRow_part003(SubSeq(trimmedLine, 3, Len(trimmedLine)))]
    ELSE IF StartsWith(trimmedLine, "E1")
    THEN [r EXCEPT !.E1 = parseComponentRow_part003(SubSeq(trimmedLine, 3, Len(trimmedLine)))]
    ELSE IF StartsWith(trimmedLine, "I1")
    THEN [r EXCEPT !.I1 = parseComponentRow_part003(SubSeq(trimmedLine, 3, Len(trimmedLine)))]
    ELSE r

----------------------------------------------------------------------------
(* Subject & Backlog Assembler *)

\* the backlog type with the internal mark looked at before the external mark
detectSubjectKTTypeInternalFirst(totData, components) ==
    IF totData.grade # "F" /\ JsGt(totData.gp, 0) THEN NULL
    ELSE IF components.internal # NoNum /\ components.internal = 0 THEN "internal"
    ELSE IF components.external # NoNum /\ components.external = 0 THEN "external"
    ELSE IF components.termWork # NoNum /\ components.termWork = 0 THEN "termWork"
    ELSE IF components.oral # NoNum /\ components.oral = 0 THEN "oral"
    ELSE "overall"

\* detectSubjectKTType(totData, components): NULL for a subject that is no backlog
detectSubjectKTType(totData, components) ==
    IF totData.grade # "F" /\ JsGt(totData.gp, 0) THEN NULL
    ELSE IF components.external # NoNum /\ components.external = 0 THEN "external"
    ELSE IF components.internal # NoNum /\ components.internal = 0 THEN "internal"
    ELSE IF components.termWork # NoNum /\ components.termWork = 0 THEN "termWork"
    ELSE IF components.oral # NoNum /\ components.oral = 0 THEN "oral"
    ELSE "overall"

\* markRows.X && markRows.X[i] !== undefined ? markRows.X[i] : null  (i is 0-based)
ComponentAt(row, i) == IF ~row.null /\ i < Len(row.marks) THEN row.marks[i + 1] ELSE NoNum

\* the component marks of subject i (0-based)
ComponentsAt(markRows, i) ==
    [termWork |-> ComponentAt(markRows.T1, i),
     oral |-> ComponentAt(markRows.O1, i),
     external |-> ComponentAt(markRows.E1, i),
     internal |-> ComponentAt(markRows.I1, i)]

\* the subject built with a backlog flag that looks at the grade alone
SubjectOfGradeOnly(code, totData, components) ==
    [code |-> code,
     name |-> SUBJECT_NAMES[code],
     marks |-> [termWork |-> components.termWork,
                oral |-> components.oral,
                external |-> components.external,
                internal |-> components.internal,
                total |-> totData.total,
                gradePoint |-> totData.gp,
                grade |-> totData.grade,
                credits |-> totData.credits,
                creditPoints |-> totData.creditPoints,
                status |-> IF totData.grade = "F" THEN "F" ELSE "P"],
     isKT |-> totData.grade = "F",
     ktType |-> detectSubjectKTType(totData, components)]

\* subjects.push({code, name, marks, isKT, ktType})
SubjectOf(code, totData, components) ==
    [code |-> code,
     name |-> SUBJECT_NAMES[code],
     marks |-> [termWork |-> components.termWork,
                oral |-> components.oral,
                external |-> components.external,
                internal |-> components.internal,
                total |-> totData.total,
                gradePoint |-> totData.gp,
                grade |-> totData.grade,
                credits |-> totData.credits,
                creditPoints |-> totData.creditPoints,
                status |-> IF totData.grade = "F" THEN "F" ELSE "P"],
     isKT |-> totData.grade = "F" \/ totData.gp = 0,
     ktType |-> detectSubjectKTType(totData, components)]

\* parseSubjectsFromRows(markRows)
parseSubjectsFromRows(markRows) ==
    [i \in 1..Min(Len(markRows.TOT), NUM_SUBJECTS) |->
        SubjectOf(SUBJECT_CODES[i], markRows.TOT[i], ComponentsAt(markRows, i - 1))]

\* number of subjects flagged as backlog
CountKT(subjects) == Cardinality({i \in 1..Len(subjects) : subjects[i].isKT})

\* number of subjects flagged as backlog of the given type
CountKTOfType(subjects, type) ==
    Cardinality({i \in 1..Len(subjects) : subjects[i].isKT /\ subjects[i].ktType = type})

\* the names of the subjects flagged as backlog, in order
RECURSIVE FailedNames(_)
FailedNames(subjects) ==
    IF Len(subjects) = 0 THEN <<>>
    ELSE (IF subjects[1].isKT THEN <<subjects[1].name>> ELSE <<>>)
         \o FailedNames(Tail(subjects))

\* detectKT(subjects) of src/lib/ktDetector: the backlog summary derived from the
\* subjects (counts by category and the failed subject names)
detectKT(subjects) ==
    [totalKT |-> CountKT(subjects),
     internalKT |-> CountKTOfType(subjects, "internal"),
     externalKT |-> CountKTOfType(subjects, "external"),
     termWorkKT |-> CountKTOfType(subjects, "termWork"),
     oralKT |-> CountKTOfType(subjects, "oral"),
     failedSubjects |-> FailedNames(subjects),
     hasKT |-> CountKT(subjects) > 0]

\* reduce((sum, s) => sum + s.marks.<field>, 0)
RECURSIVE SumMarks(_, _)
SumMarks(subjects, field) ==
    IF Len(subjects) = 0 THEN 0
    ELSE JsAdd(SumMarks(SubSeq(subjects, 1, Len(subjects) - 1), field),
               subjects[Len(subjects)].marks[field])

NullStudent == [null |-> TRUE]

\* .map(l => l.trim()).filter(l => l)
RECURSIVE TrimmedLines(_)
TrimmedLines(ls) ==
    IF Len(ls) = 0 THEN <<>>
    ELSE (IF Trim(ls[1]) # "" THEN <<Trim(ls[1])>> ELSE <<>>) \o TrimmedLines(Tail(ls))

\* block.text.split("\n").map(l => l.trim()).filter(l => l)
BlockLines(block) == TrimmedLines(SplitOn(block.text, "\n"))

\* the StudentRecord returned by parseStudentBlock (identity fields seat number
\* and registration number, subjects, credit totals and backlog summary)
StudentOf(header, subjects) ==
    [null |-> FALSE,
     seatNumber |-> header.seatNumber,
     ern |-> header.ern,
     subjects |-> subjects,
     maxMarks |-> 800,
     totalCredits |-> SumMarks(subjects, "credits"),
     totalCreditPoints |-> SumMarks(subjects, "creditPoints"),
     kt |-> detectKT(subjects)]

\* parseStudentBlock after the mark rows are extracted
BuildStudent(header, markRows) == StudentOf(header, parseSubjectsFromRows(markRows))

\* parseStudentBlock after the header is parsed
ParseBody(header, ls) ==
    IF header.null THEN NullStudent ELSE BuildStudent(header, extractMarkRows(ls))

\* parseStudentBlock on the block's trimmed, non-empty lines
ParseLines(ls, pendingErn) ==
    IF Len(ls) < 3 THEN NullStudent ELSE ParseBody(parseHeaderLine(ls, pendingErn), ls)

\* parseStudentBlock(block)
parseStudentBlock(block) == ParseLines(BlockLines(block), block.pendingErn)

----------------------------------------------------------------------------
(* Validator (src/lib/validator.ts).  Numbers that carry decimals (SGPA, *)
(* credits, credit points) are in hundredths.                            *)

\* /^\d{7}$/.test(seatNumber)
SeatFormatOk(seatNumber) == Len(seatNumber) = 7 /\ Span(seatNumber, 1, Digit) = 8

\* gradeToGP(grade): NoNum for a grade outside the mapping
gradeToGP(grade) ==
    CASE grade = "O" -> 10
      [] grade = "A+" -> 9
      [] grade = "A" -> 8
      [] grade = "B+" -> 7
      [] grade = "B" -> 6
      [] grade = "C" -> 5
      [] grade = "D" -> 4
      [] grade = "F" -> 0
      [] OTHER -> NoNum

Abs(x) == IF x < 0 THEN 0 - x ELSE x

Issue(field, message, studentSeat) ==
    [field |-> field, message |-> message, studentSeat |-> studentSeat]

\* the entry pushed if the check fails
PushIf(failed, issue) == IF failed THEN <<issue>> ELSE <<>>

\* validateSubject(subject, studentSeat).warnings (its errors are always empty)
validateSubject(subject, studentSeat) ==
    PushIf(/\ gradeToGP(subject.marks.grade) # NoNum
           /\ subject.marks.gradePoint # gradeToGP(subject.marks.grade),
           Issue("subject." \o subject.code \o ".gradePoint",
                 "Grade doesn't match GP", studentSeat))
    \o PushIf(Abs(subject.marks.creditPoints
                  - subject.marks.credits * subject.marks.gradePoint) > 10,
              Issue("subject." \o subject.code \o ".creditPoints",
                    "Credit points doesn't match expected", studentSeat))

\* the warnings of the subjects, in order
RECURSIVE SubjectWarnings(_, _)
SubjectWarnings(subjects, studentSeat) ==
    IF Len(subjects) = 0 THEN <<>>
    ELSE validateSubject(Head(subjects), studentSeat)
         \o SubjectWarnings(Tail(subjects), studentSeat)

\* the required-field checks of validateStudent
RequiredFieldErrors(student) ==
    PushIf(student.seatNumber = "" \/ ~SeatFormatOk(student.seatNumber),
           Issue("seatNumber", "Invalid seat number format (expected 7 digits)",
                 student.seatNumber))
    \o PushIf(student.name = "" \/ Len(Trim(student.name)) < 2,
              Issue("name", "Student name is required", student.seatNumber))

\* the total marks lie outside [0, maxMarks]
MarksOutOfRange(student) ==
    student.totalMarks < 0 \/ student.totalMarks > student.maxMarks

\* the errors of a validateStudent that also rejects total marks out of range
StudentErrorsStrictMarks(student) ==
    RequiredFieldErrors(student)
    \o PushIf(MarksOutOfRange(student),
              Issue("totalMarks", "Total marks may be invalid", student.seatNumber))

\* validateStudent(student).errors
StudentErrors(student) == RequiredFieldErrors(student)

\* validateStudent(student).warnings
StudentWarnings(student) ==
    PushIf(MarksOutOfRange(student),
           Issue("totalMarks", "Total marks may be invalid", student.seatNumber))
    \o PushIf(student.sgpa < 0 \/ student.sgpa > 1000,
              Issue("sgpa", "SGPA is out of valid range (0-10)", student.seatNumber))
    \o PushIf(student.result = "PASS" /\ student.kt.hasKT,
              Issue("result", "Student marked as PASS but has KT subjects",
                    student.seatNumber))
    \o SubjectWarnings(student.subjects, student.seatNumber)

ResultOf(errors, warnings) ==
    [valid |-> Len(errors) = 0, errors |-> errors, warnings |-> warnings]

\* validateStudent(student)
validateStudent(student) == ResultOf(StudentErrors(student), StudentWarnings(student))

\* findDuplicates reporting each repeated seat number once
RECURSIVE FindDuplicatesOnce(_, _, _, _)
FindDuplicatesOnce(list, i, seen, duplicates) ==
    IF i > Len(list) THEN duplicates
    ELSE IF list[i].seatNumber \in seen
         THEN FindDuplicatesOnce(list, i + 1, seen,
                  IF \E k \in 1..Len(duplicates) : duplicates[k] = list[i].seatNumber
                  THEN duplicates ELSE Append(duplicates, list[i].seatNumber))
    ELSE FindDuplicatesOnce(list, i + 1, seen \cup {list[i].seatNumber}, duplicates)

\* the loop of findDuplicates from student i (1-based) on
RECURSIVE FindDuplicatesFrom(_, _, _, _)
FindDuplicatesFrom(list, i, seen, duplicates) ==
    IF i > Len(list) THEN duplicates
    ELSE IF list[i].seatNumber \in seen
         THEN FindDuplicatesFrom(list, i + 1, seen, Append(duplicates, list[i].seatNumber))
    ELSE FindDuplicatesFrom(list, i + 1, seen \cup {list[i].seatNumber}, duplicates)

\* findDuplicates(students)
findDuplicates(list) == FindDuplicatesFrom(list, 1, {}, <<>>)

DuplicateMessage == "Duplicate seat number found: "

\* the error pushed for every entry of duplicates
DuplicateErrors(duplicates) ==
    [k \in 1..Len(duplicates) |->
        Issue("seatNumber", DuplicateMessage \o duplicates[k], UNDEFINED)]

RECURSIVE AllStudentErrors(_)
AllStudentErrors(list) ==
    IF Len(list) = 0 THEN <<>>
    ELSE validateStudent(Head(list)).errors \o AllStudentErrors(Tail(list))

RECURSIVE AllStudentWarnings(_)
AllStudentWarnings(list) ==
    IF Len(list) = 0 THEN <<>>
    ELSE validateStudent(Head(list)).warnings \o AllStudentWarnings(Tail(list))

\* validateParsedResult(students)
validateParsedResult(list) ==
    ResultOf(DuplicateErrors(findDuplicates(list)) \o AllStudentErrors(list),
             AllStudentWarnings(list))

----------------------------------------------------------------------------
(* Analysis engine (generateAnalysis and its helpers).  Averages and the   *)
(* pass percentage are in hundredths.                                      *)

\* Math.round(n / d) for n >= 0, d > 0
Round(n, d) == (2 * n + d) \div (2 * d)

\* the number of indices in S
Count(S) == Cardinality(S)

RECURSIVE SumOver(_, _)
SumOver(f, S) == IF S = {} THEN 0
                 ELSE LET i == CHOOSE j \in S : TRUE IN f[i] + SumOver(f, S \ {i})

\* Math.max(...) and Math.min(...) of the values f[i], i in a non-empty S
MaxOver(f, S) == f[CHOOSE i \in S : \A j \in S : f[j] <= f[i]]
MinOver(f, S) == f[CHOOSE i \in S : \A j \in S : f[i] <= f[j]]

\* the statistics of the positive values f[i], i in S: highest, lowest, sum, count
HighestOf(f, S) == IF S = {} THEN 0 ELSE MaxOver(f, S)
LowestOf(f, S) == IF S = {} THEN 0 ELSE MinOver(f, S)
AverageOf(f, S) == IF S = {} THEN 0 ELSE Round(SumOver(f, S), Count(S))

\* the class of a total with the lower bounds of the classes exclusive
MarksClassStrict(student) ==
    IF student.totalMarks * 100 > 75 * 800 THEN "distinction"
    ELSE IF student.totalMarks * 100 > 60 * 800 THEN "firstClass"
    ELSE IF student.totalMarks * 100 > 50 * 800 THEN "secondClass"
    ELSE IF student.totalMarks * 100 > 40 * 800 /\ student.result = "PASS"
         THEN "passClass"
    ELSE "fail"

\* the class a student's total falls in (percentage of maxMarks = 800)
MarksClass(student) ==
    IF student.totalMarks * 100 >= 75 * 800 THEN "distinction"
    ELSE IF student.totalMarks * 100 >= 60 * 800 THEN "firstClass"
    ELSE IF student.totalMarks * 100 >= 50 * 800 THEN "secondClass"
    ELSE IF student.totalMarks * 100 >= 40 * 800 /\ student.result = "PASS"
         THEN "passClass"
    ELSE "fail"

\* calculateMarksDistribution(students)
calculateMarksDistribution(list) ==
    [c \in {"distinction", "firstClass", "secondClass", "passClass", "fail"} |->
        Count({i \in 1..Len(list) : MarksClass(list[i]) = c})]

\* a grouping that leaves the students without a backlog out of every group
KTClassOfBacklogs(student) ==
    IF student.kt.totalKT = 0 THEN "none"
    ELSE IF student.kt.totalKT = 1 THEN "oneKT"
    ELSE IF student.kt.totalKT = 2 THEN "twoKT"
    ELSE "threeOrMoreKT"

\* the group a student's backlog count falls in
KTClass(student) ==
    IF student.kt.totalKT = 0 THEN "noKT"
    ELSE IF student.kt.totalKT = 1 THEN "oneKT"
    ELSE IF student.kt.totalKT = 2 THEN "twoKT"
    ELSE "threeOrMoreKT"

\* calculateKTDistribution(students)
calculateKTDistribution(list) ==
    [c \in {"noKT", "oneKT", "twoKT", "threeOrMoreKT"} |->
        Count({i \in 1..Len(list) : KTClass(list[i]) = c})]

\* createEmptyAnalysis()
createEmptyAnalysis ==
    [null |-> FALSE,
     totalStudents |-> 0, passedCount |-> 0, failedCount |-> 0, passPercentage |-> 0,
     studentsWithKT |-> 0, averageKTPerStudent |-> 0,
     highestMarks |-> 0, lowestMarks |-> 0, averageMarks |-> 0, averageSGPA |-> 0,
     marksDistribution |-> [c \in {"distinction", "firstClass", "secondClass",
                                   "passClass", "fail"} |-> 0],
     ktDistribution |-> [c \in {"noKT", "oneKT", "twoKT", "threeOrMoreKT"} |-> 0]]

\* the summary of a non-empty list, given its passed students and the students
\* with positive total marks and with positive SGPA
SummaryOf(list, passed, marked, graded) ==
    [null |-> FALSE,
     totalStudents |-> Len(list),
     passedCount |-> Count(passed),
     failedCount |-> Count({i \in 1..Len(list) : list[i].result = "FAILED"}),
     passPercentage |-> Round(Count(passed) * 10000, Len(list)),
     studentsWithKT |-> Count({i \in 1..Len(list) : list[i].kt.hasKT}),
     averageKTPerStudent |->
         Round(SumOver([i \in 1..Len(list) |-> list[i].kt.totalKT], 1..Len(list)) * 100,
               Len(list)),
     highestMarks |-> HighestOf([i \in 1..Len(list) |-> list[i].totalMarks], marked),
     lowestMarks |-> LowestOf([i \in 1..Len(list) |-> list[i].totalMarks], marked),
     averageMarks |-> AverageOf([i \in 1..Len(list) |-> list[i].totalMarks], marked),
     averageSGPA |-> AverageOf([i \in 1..Len(list) |-> list[i].sgpa], graded),
     marksDistribution |-> calculateMarksDistribution(list),
     ktDistribution |-> calculateKTDistribution(list)]

\* generateAnalysis(students)
generateAnalysis(list) ==
    IF Len(list) = 0 THEN createEmptyAnalysis
    ELSE SummaryOf(list,
                   {i \in 1..Len(list) : list[i].result = "PASS"},
                   {i \in 1..Len(list) : list[i].totalMarks > 0},
                   {i \in 1..Len(list) : list[i].sgpa > 0})

----------------------------------------------------------------------------
(* parseResultPdf (src/lib/parserEngine.ts): the response of the parser     *)
(* service mapped to the records handed to callers.  A key the response     *)
(* leaves out holds UNDEFINED (strings), NoNum (numbers) or a record marked *)
(* null (objects).                                                          *)

\* s.key as string || fallback
OrString(v, fallback) == IF v = UNDEFINED \/ v = "" THEN fallback ELSE v

\* s.key as number || fallback
OrNumber(v, fallback) == IF v = NoNum \/ v = 0 \/ IsNaN(v) THEN fallback ELSE v

NullKT == [null |-> TRUE]

ZeroKT == [totalKT |-> 0, internalKT |-> 0, externalKT |-> 0, termWorkKT |-> 0,
           oralKT |-> 0, failedSubjects |-> <<>>, hasKT |-> FALSE]

\* the subject mapped from the response's subject
MapSubject(sub) ==
    [code |-> OrString(sub.code, ""),
     name |-> OrString(sub.name, ""),
     marks |-> sub.marks,
     isKT |-> sub.isKT \/ FALSE,
     ktType |-> sub.ktType]

\* (s.kt as KTResult) || { totalKT: 0, ... }
OrZeroKT(kt) ==
    IF kt.null THEN ZeroKT
    ELSE [totalKT |-> kt.totalKT, internalKT |-> kt.internalKT,
          externalKT |-> kt.externalKT, termWorkKT |-> kt.termWorkKT,
          oralKT |-> kt.oralKT, failedSubjects |-> kt.failedSubjects,
          hasKT |-> kt.hasKT]

\* the StudentRecord mapped from the response's student (the fields read by the
\* validator and the analysis, and the registration number)
MapStudent(s) ==
    [seatNumber |-> OrString(s.seatNumber, ""),
     name |-> OrString(s.name, ""),
     ern |-> s.ern,
     subjects |-> [n \in 1..Len(s.subjects) |-> MapSubject(s.subjects[n])],
     totalMarks |-> OrNumber(s.totalMarks, 0),
     maxMarks |-> OrNumber(s.maxMarks, 800),
     result |-> OrString(s.result, "FAILED"),
     sgpa |-> OrNumber(s.sgpa, 0),
     kt |-> OrZeroKT(s.kt)]

\* (result.students || []).map(...)
MapStudents(list) == [i \in 1..Len(list) |-> MapStudent(list[i])]

\* result.analysis || generateAnalysis(students)
OrGenerated(serverAnalysis, list) ==
    IF ~serverAnalysis.null THEN serverAnalysis ELSE generateAnalysis(list)

\* the ParsedResult built from the mapped students
ParsedResultOf(list, serverAnalysis) ==
    [students |-> list, analysis |-> OrGenerated(serverAnalysis, list)]

\* parseResultPdf: the students and the analysis it returns for a response
parseResultPdf(result) == ParsedResultOf(MapStudents(result.students), result.analysis)

----------------------------------------------------------------------------
(* parseResultPdf, step by step: progress events, cancellation and failures *)

\* the ParserProgress passed to onProgress (its status and error)
ProgressEvent(status, error) == [status |-> status, error |-> error]

\* new DOMException(message, "AbortError"), thrown by the engine or by fetch
AbortError(message) == [name |-> "AbortError", message |-> message, dom |-> TRUE]

\* an Error that is no DOMException
ErrorOf(name, message) == [name |-> name, message |-> message, dom |-> FALSE]

\* error instanceof DOMException && error.name === "AbortError"
IsAbortError(error) == error.dom /\ error.name = "AbortError"

\* a catch block that reports every error as a cancellation
CatchEventAlwaysCancelled(error) == ProgressEvent("cancelled", "Parsing cancelled by user")

\* the progress event of the catch block
CatchEvent(error) ==
    IF IsAbortError(error) THEN ProgressEvent("cancelled", "Parsing cancelled by user")
    ELSE ProgressEvent("error", error.message)

\* a catch block that emits nothing
EventsUnchanged(evs, error) == evs

\* the events after the catch block has reported the error
EventsAfterCatch(evs, error) == Append(evs, CatchEvent(error))

\* errorData.error || `Parsing failed (HTTP ${response.status})`
HttpErrorMessage(error, status) ==
    IF error = UNDEFINED \/ error = "" THEN "Parsing failed (HTTP " \o status \o ")"
    ELSE error

\* await response.json().catch(() => ({ error: "Parser service error" })), then .error
ErrorDataError(resp, bodyAborted) ==
    IF bodyAborted \/ ~resp.json THEN "Parser service error" ELSE resp.error

\* the Error thrown for a response that is not OK
HttpError(resp, bodyAborted) ==
    ErrorOf("Error", HttpErrorMessage(ErrorDataError(resp, bodyAborted), resp.status))

\* the function is running, has thrown into its catch block, or has settled
Thrown(error) == [kind |-> "thrown", error |-> error]
Rejected(error) == [kind |-> "rejected", error |-> error]
Resolved == [kind |-> "resolved"]

\* an entry of the log: a call made to a collaborator, an abort of the signal, or
\* the way a request settled
LogEntry(op, at) == [op |-> op, at |-> at]

----------------------------------------------------------------------------
(* One page through the segmenter and the block parser: the inputs *)

MaxBlockLen == 19

Filler == "I1 12"
Header1 == "1402781 DISHA ATMARAM MASAYE Regular FEMALE"
Header2 == "1402782 ROHAN SURESH PATIL Regular MALE"
Header3 == "1402783 SNEHA VIJAY JADHAV Regular FEMALE"
Preamble == "OFFICE REGISTER FOR THE B.E. EXAMINATION"
\* the registration numbers of a page are pairwise distinct: equal values are
\* the same token
ErnA == "(MU0341120250220778)"
ErnB == "(MU0341120250220779)"
ErnC == "(MU0341120250220780)"
ErnD == "(MU0341120250220781)"
\* a registration number cut in two by the text extraction
Part == "(MU0341120250220"
Cont == "778)"

\* the places of two marked lines among n body lines: next to each other, or
\* the second one on the last line
PairPlaces(n) == {pq \in (1..n) \X (1..n) : pq[1] < pq[2] /\ pq[2] \in {pq[1] + 1, n}}

\* n body lines: filler, with at most two lines that carry (part of) a
\* registration number
FirstBodies(n) ==
    {[i \in 1..n |-> Filler]}
    \cup {[i \in 1..n |-> IF i = p THEN a ELSE Filler] :
              p \in 1..n, a \in {ErnA, Part}}
    \cup {[i \in 1..n |-> IF i = pq[1] THEN a ELSE IF i = pq[2] THEN b ELSE Filler] :
              pq \in PairPlaces(n), a \in {ErnA, Part}, b \in {ErnB, Cont}}

\* the page's first block: its header line and up to MaxBlockLen - 1 body lines
FirstBlocks == UNION {{<<Header1>> \o body : body \in FirstBodies(n)} :
                          n \in 0..(MaxBlockLen - 1)}

\* the block that follows: none, or a header with or without a registration
\* number (whole or cut) and a short body
NextBlocks ==
    { <<>>,
      <<Header2>>,
      <<Header2, Filler, Filler>>,
      <<Header2, Cont, Filler>>,
      <<Header2, ErnC, Filler>>,
      <<Header2, Filler, Filler, Filler, Filler, Filler, ErnC>>,
      <<Header2 \o " " \o ErnD, Filler, Filler>>,
      <<Header2 \o " " \o Part, Cont, Filler>> }

\* a line before the first block, a short first block and the block that follows
PreamblePages ==
    {<<Preamble, Header1>> \o body \o b2 : body \in FirstBodies(2), b2 \in NextBlocks}

\* three blocks: a first block of 12 lines, a second block of 2 or of 12 lines, and
\* a short third block
ThreeBlockPages ==
    {<<Header1>> \o body \o b2 \o <<Header3, Filler, Filler>> :
        body \in FirstBodies(11),
        b2 \in {<<Header2, Filler>>, <<Header2>> \o [i \in 1..11 |-> Filler]}}

Pages == {b1 \o b2 : b1 \in FirstBlocks, b2 \in NextBlocks}
         \cup {<<Preamble>> \o b1 : b1 \in FirstBlocks}
         \cup PreamblePages
         \cup ThreeBlockPages

NullAnalysis == [null |-> TRUE]
NullValidation == [null |-> TRUE]
NoResponse == [students |-> <<>>, analysis |-> NullAnalysis]

----------------------------------------------------------------------------
(* The values of the result fetcher and of the useParser hook *)

\* BRANCHES.find(b => b.id === branchId)?.file, 'results.json' for no branch
DEFAULT_BRANCH == "comps"
BranchIds == {"comps", "mech"}
FileName(branchId) ==
    IF branchId = "comps" THEN "computer.json"
    ELSE IF branchId = "mech" THEN "mechanical.json"
    ELSE IF branchId = "aids" THEN "aids.json"
    ELSE "results.json"
FileNames == {FileName(b) : b \in BranchIds}

\* resultsCache[fileName] of a file never cached, and a cache entry
NoEntry == [null |-> TRUE]
CacheEntry(data, timestamp) == [data |-> data, timestamp |-> timestamp]
EmptyCache == [f \in FileNames |-> NoEntry]
IsNull(v) == "null" \in DOMAIN v

\* const initialState: ParserState
NoFile == [null |-> TRUE]
NoProgress == [null |-> TRUE]
NoResult == [null |-> TRUE]
initialState ==
    [file |-> NoFile, fileInfo |-> NoFile, isLoading |-> FALSE, isParsing |-> FALSE,
     progress |-> NoProgress, result |-> NoResult, students |-> <<>>,
     analysis |-> NullAnalysis, error |-> NULL]

\* no page is being reconstructed, nothing is cached and the hook is untouched
AppIdle ==
    /\ items = <<>>
    /\ resultsCache = EmptyCache
    /\ now = 0
    /\ frames = <<>>
    /\ state = initialState
    /\ rendered = 0

----------------------------------------------------------------------------
(* No asynchronous operation *)

\* no asynchronous operation has started
Pending == [kind |-> "pending"]
IoIdle ==
    /\ events = <<>>
    /\ aborted = FALSE
    /\ outcome = Pending
    /\ log = <<>>
    /\ pageNum = 0
    /\ totalPages = 0
    /\ yielded = <<>>
    /\ rowTokens = <<>>
    /\ AppIdle

----------------------------------------------------------------------------
(* One page through the segmenter and the block parser *)

Init ==
    /\ lines \in Pages
    /\ pc = "page"
    /\ blocks = <<>>
    /\ records = <<>>
    /\ idx = 0
    /\ rows = EmptyMarkRows
    /\ response = NoResponse
    /\ students = <<>>
    /\ validation = NullValidation
    /\ analysis = NullAnalysis
    /\ IoIdle

\* findStudentBlocks(lines, pageNumber)
FindStudentBlocks ==
    /\ pc = "page"
    /\ blocks' = findStudentBlocks(lines, 1)
    /\ pc' = "blocks"
    /\ UNCHANGED <<lines, records, idx, rows, response, students, validation, analysis>>
    /\ UNCHANGED ioVars

\* parseStudentBlock(block) on the next block of the page, in page order
ParseStudentBlock ==
    /\ pc = "blocks"
    /\ idx < Len(blocks)
    /\ records' = Append(records, parseStudentBlock(blocks[idx + 1]))
    /\ idx' = idx + 1
    /\ UNCHANGED <<pc, lines, blocks, rows, response, students, validation, analysis>>
    /\ UNCHANGED ioVars

Next == FindStudentBlocks \/ ParseStudentBlock

Spec == Init /\ [][Next]_vars

----------------------------------------------------------------------------
(* Properties of the page pipeline (Spec) *)

\* every registration number written out in full on the line
FullErnsIn(line) == {SubSeq(line, p, p + 17) : p \in {q \in 1..Len(line) : MuAt(line, q, 16)}}

\* the header lines (the first five) that end with a cut registration number
\* which the digits at the start of the following line complete
SplitPlaces(ls) ==
    {i \in 1..Min(5, Len(ls) - 1) :
        /\ PartialErnMatch(ls[i]) # NULL
        /\ RemainingDigitsMatch(ls[i + 1]) # NULL
        /\ isValidErn(PartialErnMatch(ls[i]) \o RemainingDigitsMatch(ls[i + 1]))}

\* the registration numbers present in the lines of a block: written out in full
\* on one line, or cut across two header lines
ErnsOf(ls) ==
    UNION {FullErnsIn(ls[i]) : i \in 1..Len(ls)}
    \cup {PartialErnMatch(ls[i]) \o RemainingDigitsMatch(ls[i + 1]) : i \in SplitPlaces(ls)}

\* block k of the page has been parsed into a record
ParsedRecord(k) == k <= Len(records) /\ ~records[k].null

\* C2: when the segmenter attaches a registration number found in the trailing
\* lines of block k to block k+1 as pendingErn, the record parsed from block k
\* does not report that number as its own.
C2_TrailingErnHandedOverNotKept ==
    \A k \in 1..(Len(blocks) - 1) :
        (ParsedRecord(k) /\ blocks[k + 1].pendingErn # UNDEFINED)
            => records[k].ern # blocks[k + 1].pendingErn

LastLine(block) == SplitOn(block.text, "\n")[Len(SplitOn(block.text, "\n"))]

\* block k ends with a cut registration number, the header line of block k+1 holds
\* no registration number and the line after it starts with the digits that
\* complete the cut one
SplitAcrossBlocks(k) ==
    /\ PartialErnMatch(Trim(LastLine(blocks[k]))) # NULL
    /\ Len(BlockLines(blocks[k + 1])) >= 2
    /\ FullErnMatch(BlockLines(blocks[k + 1])[1]) = NULL
    /\ RemainingDigitsMatch(BlockLines(blocks[k + 1])[2]) # NULL
    /\ isValidErn(PartialErnMatch(Trim(LastLine(blocks[k])))
                  \o RemainingDigitsMatch(BlockLines(blocks[k + 1])[2]))

\* C4: when block k ends with a cut registration number and block k+1, whose header
\* holds no registration number, goes on with the missing digits, the record of
\* block k+1 reports the two parts put together.
C4_SplitErnRecoveredAcrossBlocks ==
    \A k \in 1..(Len(blocks) - 1) :
        (ParsedRecord(k + 1) /\ SplitAcrossBlocks(k))
            => records[k + 1].ern = PartialErnMatch(Trim(LastLine(blocks[k])))
                                    \o RemainingDigitsMatch(BlockLines(blocks[k + 1])[2])

TrailingWindow(n) == Max(10, n - 8)..(n - 1)

\* line j (0-based) of the block holds a valid registration number
ErnOnLine(block, j) == ValidMatch(FullErnMatch(SplitOn(block.text, "\n")[j + 1]))

----------------------------------------------------------------------------
(* Block parsing, step by step: the inputs *)

MaxBodyLines == 2

\* an aggregate row of n quintuples, failed and passed subjects alternating
RECURSIVE LongRow(_)
LongRow(n) ==
    IF n = 0 THEN "TOT"
    ELSE LongRow(n - 1) \o (IF n % 2 = 1 THEN " 38 0 F 3 0.0" ELSE " 50 8 A 4 32.0")

\* the lines a block body is drawn from: aggregate rows that the strict grammar
\* parses (plain, "+" marker, grace), a repeated header misread as data, rows only
\* the token walk parses (merged grade/credits, lower-case grade, stray "@"),
\* rows longer than the curriculum, and component rows
MarkLines ==
    { "TOT GP G C G*C",
      "TOT 50 8 A 3 24.0 50 8 A 3 24.0",
      "TOT 100 10 O 3 30.0 50 8 A 3 24.0",
      "TOT 77+ 7 B+ 3 21.0 38@5 4 D 2 8.0",
      "TOT 0 0 AB 3 0.0",
      "TOT 60 8 A3 24.0 45 0 f 3 0.0",
      "TOT 38 @ 0 F3 0.0 40 4 d 2 8.0",
      "E1 0 40",
      "I1 12 0",
      LongRow(5), LongRow(7), LongRow(NUM_SUBJECTS), LongRow(NUM_SUBJECTS + 1) }

SeatLines == { "1402781 DISHA ATMARAM MASAYE Regular FEMALE (MU0341120250220778)",
               "TOT 38 0 F 3 0.0" }

RECURSIVE SeqsOf(_, _)
SeqsOf(S, n) == IF n = 0 THEN {<<>>}
                ELSE {Append(sq, x) : sq \in SeqsOf(S, n - 1), x \in S}

\* a block: a first line and 1..MaxBodyLines body lines
MarkBlocks == {<<h>> \o body : h \in SeatLines,
                               body \in UNION {SeqsOf(MarkLines, n) : n \in 1..MaxBodyLines}}

BlockOf(ls) == [text |-> Join(ls, "\n"), pageNumber |-> 1, lineStart |-> 0,
                lineEnd |-> Len(ls) - 1, pendingErn |-> UNDEFINED]

----------------------------------------------------------------------------
(* Block parsing, step by step: parseStudentBlock with the loop of             *)
(* extractMarkRows unrolled into one step per line                            *)

InitMarks ==
    /\ lines \in MarkBlocks
    /\ blocks = <<BlockOf(lines)>>
    /\ pc = "start"
    /\ idx = 0
    /\ rows = EmptyMarkRows
    /\ records = <<>>
    /\ response = NoResponse
    /\ students = <<>>
    /\ validation = NullValidation
    /\ analysis = NullAnalysis
    /\ IoIdle

\* parseStudentBlock up to the header: too short a block or no seat number -> null
StartBlock ==
    /\ pc = "start"
    /\ LET ls == BlockLines(blocks[1])
       IN IF Len(ls) < 3 \/ parseHeaderLine(ls, blocks[1].pendingErn).null
          THEN /\ records' = <<NullStudent>>
               /\ pc' = "done"
          ELSE /\ records' = records
               /\ pc' = "scan"
    /\ UNCHANGED <<lines, blocks, idx, rows, response, students, validation, analysis>>
    /\ UNCHANGED ioVars

\* one iteration of the loop of extractMarkRows
ScanLine ==
    /\ pc = "scan"
    /\ idx < Len(BlockLines(blocks[1]))
    /\ rows' = ExtractLine(rows, BlockLines(blocks[1])[idx + 1])
    /\ idx' = idx + 1
    /\ UNCHANGED <<pc, lines, blocks, records, response, students, validation, analysis>>
    /\ UNCHANGED ioVars

\* the rest of parseStudentBlock: subjects, totals and the record
AssembleStudent ==
    /\ pc = "scan"
    /\ idx = Len(BlockLines(blocks[1]))
    /\ records' = <<BuildStudent(parseHeaderLine(BlockLines(blocks[1]),
                                                 blocks[1].pendingErn), rows)>>
    /\ pc' = "done"
    /\ UNCHANGED <<lines, blocks, idx, rows, response, students, validation, analysis>>
    /\ UNCHANGED ioVars

NextMarks == StartBlock \/ ScanLine \/ AssembleStudent

SpecMarks == InitMarks /\ [][NextMarks]_vars


----------------------------------------------------------------------------
(* Properties of the step-wise block parse (SpecMarks) *)

\* the loop of extractMarkRows has consumed every line of the block
ScanDone == pc = "scan" /\ idx = Len(BlockLines(blocks[1]))

\* the aggregate rows parsed from the TOT-labelled lines of ls, in line order
RECURSIVE TotCandidates(_)
TotCandidates(ls) ==
    IF Len(ls) = 0 THEN <<>>
    ELSE LET line == NormalizeWs(Trim(ls[Len(ls)]))
             before == TotCandidates(SubSeq(ls, 1, Len(ls) - 1))
         IN IF StartsWith(line, "TOT")
            THEN Append(before, parseTotRow(AfterLabel(line, "TOT")))
            ELSE before

RECURSIVE Reverse(_)
Reverse(sq) == IF Len(sq) = 0 THEN <<>> ELSE Append(Reverse(Tail(sq)), Head(sq))

\* what the tie-break ranks an aggregate row by
TotKey(tot) == <<Len(tot), SumTotals(tot)>>

\* C1: once every line of a block is scanned, the retained aggregate row is one of
\* the candidates, no candidate has more subjects, no candidate of the same subject
\* count has a greater sum of totals (a sum that is a number is never beaten by one
\* that is not), and scanning the same lines in the opposite order retains a row of
\* the same count and sum.
C1_TotTieBreak ==
    ScanDone =>
        LET ls == BlockLines(blocks[1])
            cands == TotCandidates(ls)
        IN Len(cands) > 0 =>
            /\ \E k \in 1..Len(cands) : cands[k] = rows.TOT
            /\ \A k \in 1..Len(cands) : Len(cands[k]) <= Len(rows.TOT)
            /\ \A k \in 1..Len(cands) :
                  (Len(cands[k]) = Len(rows.TOT) /\ ~IsNaN(SumTotals(cands[k]))) =>
                      /\ ~IsNaN(SumTotals(rows.TOT))
                      /\ SumTotals(rows.TOT) >= SumTotals(cands[k])
            /\ TotKey(extractMarkRows(Reverse(ls)).TOT) = TotKey(rows.TOT)

\* C9: every record parseStudentBlock produces has at most NUM_SUBJECTS subjects,
\* and each subject is flagged as backlog exactly when its grade is "F" or its
\* grade point is 0.
C9_SubjectsBoundedAndFlagged ==
    \A k \in 1..Len(records) :
        ~records[k].null =>
            /\ Len(records[k].subjects) <= NUM_SUBJECTS
            /\ \A n \in 1..Len(records[k].subjects) :
                  LET sb == records[k].subjects[n]
                  IN sb.isKT <=> (sb.marks.grade = "F" \/ sb.marks.gradePoint = 0)

\* a record built from an aggregate row longer than the curriculum, holding both
\* backlog and cleared subjects
C9_Witness ==
    /\ pc = "done"
    /\ Len(rows.TOT) > NUM_SUBJECTS
    /\ Len(records) = 1 /\ ~records[1].null
    /\ Len(records[1].subjects) = NUM_SUBJECTS
    /\ \E n \in 1..NUM_SUBJECTS : records[1].subjects[n].isKT
    /\ \E n \in 1..NUM_SUBJECTS : ~records[1].subjects[n].isKT

----------------------------------------------------------------------------
(* A batch through parseResultPdf and validateParsedResult: the inputs *)

\* students per response
MaxStudents == 4

WireMarks(grade, gradePoint, credits, creditPoints) ==
    [termWork |-> NoNum, oral |-> NoNum, external |-> 40, internal |-> 12,
     total |-> 52, gradePoint |-> gradePoint, grade |-> grade,
     credits |-> credits, creditPoints |-> creditPoints,
     status |-> IF grade = "F" THEN "F" ELSE "P"]

\* a cleared subject, a failed one, and a cleared one whose grade point and credit
\* points disagree with its grade and credits
ClearedSubject == [code |-> "10411", name |-> SUBJECT_NAMES["10411"],
                   marks |-> WireMarks("A", 8, 300, 2400), isKT |-> FALSE, ktType |-> NULL]
FailedSubject == [code |-> "10412", name |-> SUBJECT_NAMES["10412"],
                  marks |-> WireMarks("F", 0, 300, 0), isKT |-> TRUE, ktType |-> "external"]
SkewedSubject == [code |-> "10413", name |-> SUBJECT_NAMES["10413"],
                  marks |-> WireMarks("A", 7, 300, 2400), isKT |-> FALSE, ktType |-> NULL]

\* a backlog summary of the response: n external backlogs with the given names
WireKT(n, failed) ==
    [null |-> FALSE, totalKT |-> n, internalKT |-> 0, externalKT |-> n,
     termWorkKT |-> 0, oralKT |-> 0, failedSubjects |-> failed, hasKT |-> n > 0]

\* the students a response is made of: a consistent one, a second one under the
\* same seat number, one with most keys left out, one with a short seat number and
\* an empty name, one whose numbers are out of range, one without a seat number,
\* one marked out of 1000; their totals sit on the class boundaries of 800 marks
WireStudents ==
    << [seatNumber |-> "1402781", name |-> "DISHA ATMARAM MASAYE",
        ern |-> "MU0341120250220778", subjects |-> <<ClearedSubject>>,
        totalMarks |-> 600, maxMarks |-> 800, result |-> "PASS", sgpa |-> 850,
        kt |-> WireKT(0, <<>>)],
       [seatNumber |-> "1402781", name |-> "ROHAN SURESH PATIL",
        ern |-> NULL, subjects |-> <<ClearedSubject, FailedSubject>>,
        totalMarks |-> 320, maxMarks |-> 800, result |-> "FAILED", sgpa |-> 0,
        kt |-> WireKT(1, <<FailedSubject.name>>)],
       [seatNumber |-> "1402782", name |-> "ASHA VIJAY MORE",
        ern |-> NULL, subjects |-> <<FailedSubject>>,
        totalMarks |-> NoNum, maxMarks |-> NoNum, result |-> UNDEFINED, sgpa |-> NoNum,
        kt |-> NullKT],
       [seatNumber |-> "14027", name |-> "",
        ern |-> NULL, subjects |-> <<ClearedSubject>>,
        totalMarks |-> 480, maxMarks |-> 800, result |-> "PASS", sgpa |-> 620,
        kt |-> WireKT(0, <<>>)],
       [seatNumber |-> "1402783", name |-> "KIRAN ANIL JOSHI",
        ern |-> NULL, subjects |-> <<SkewedSubject, FailedSubject>>,
        totalMarks |-> 900, maxMarks |-> 800, result |-> "PASS", sgpa |-> 1050,
        kt |-> WireKT(1, <<FailedSubject.name>>)],
       [seatNumber |-> UNDEFINED, name |-> "A",
        ern |-> NULL, subjects |-> <<>>,
        totalMarks |-> 320, maxMarks |-> 800, result |-> "PASS", sgpa |-> 480,
        kt |-> WireKT(0, <<>>)],
       [seatNumber |-> "1402784", name |-> "NEHA RAJESH KULKARNI",
        ern |-> NULL, subjects |-> <<ClearedSubject>>,
        totalMarks |-> 400, maxMarks |-> 1000, result |-> "FAILED", sgpa |-> 550,
        kt |-> WireKT(0, <<>>)] >>

\* an analysis computed by the service
ServerAnalysis == [createEmptyAnalysis EXCEPT !.totalStudents = 1, !.passedCount = 1,
                                              !.passPercentage = 10000]

\* the responses: up to so many students, with or without an analysis
ResponsesUpTo(most) ==
    {[students |-> [i \in 1..n |-> WireStudents[pick[i]]], analysis |-> a] :
        <<n, pick, a>> \in
            UNION {{<<m, f, b>> : f \in [1..m -> 1..Len(WireStudents)],
                                  b \in {NullAnalysis, ServerAnalysis}} :
                   m \in 0..most}}

Responses == ResponsesUpTo(MaxStudents)

----------------------------------------------------------------------------
(* A batch through parseResultPdf and validateParsedResult *)

InitBatch ==
    /\ response \in Responses
    /\ pc = "response"
    /\ students = <<>>
    /\ analysis = NullAnalysis
    /\ validation = NullValidation
    /\ lines = <<>>
    /\ blocks = <<>>
    /\ records = <<>>
    /\ idx = 0
    /\ rows = EmptyMarkRows
    /\ IoIdle

\* parseResultPdf from the response on: the mapped students and the analysis
ParseResultPdf ==
    /\ pc = "response"
    /\ students' = parseResultPdf(response).students
    /\ analysis' = parseResultPdf(response).analysis
    /\ pc' = "parsed"
    /\ UNCHANGED <<lines, blocks, records, idx, rows, response, validation>>
    /\ UNCHANGED ioVars

\* validateParsedResult(students) on the students parseResultPdf returned
ValidateParsedResult ==
    /\ pc = "parsed"
    /\ validation' = validateParsedResult(students)
    /\ pc' = "validated"
    /\ UNCHANGED <<lines, blocks, records, idx, rows, response, students, analysis>>
    /\ UNCHANGED ioVars

NextBatch == ParseResultPdf \/ ValidateParsedResult

SpecBatch == InitBatch /\ [][NextBatch]_vars

----------------------------------------------------------------------------
(* Properties of the batch (SpecBatch) *)

\* the positions of the list whose seat number occurred at an earlier position
LaterOccurrences(list) ==
    {i \in 1..Len(list) : \E j \in 1..(i - 1) : list[j].seatNumber = list[i].seatNumber}

\* C6: the list parseResultPdf returns holds at most one record per seat number,
\* and the analysis generated from it counts one student per seat number.
C6_OneRecordPerSeatNumber ==
    pc # "response" =>
        /\ LaterOccurrences(students) = {}
        /\ response.analysis.null =>
              analysis.totalStudents =
                  Cardinality({students[i].seatNumber : i \in 1..Len(students)})

\* the entries of errors that report a duplicate seat number, in order
IsDuplicateError(e) == StartsWith(e.message, DuplicateMessage)
DuplicateReports(errors) == SelectSeq(errors, IsDuplicateError)

\* the i-th smallest element of a finite set of numbers
RECURSIVE Nth(_, _)
Nth(S, i) == IF i = 1 THEN Least(S) ELSE Nth(S \ {Least(S)}, i - 1)

\* C7: the duplicate errors of validateParsedResult are, in order, one per later
\* occurrence of a seat number, each naming the seat number of that occurrence; so
\* a seat number occurring k times is named by exactly k-1 of them.
C7_DuplicateErrorsPerLaterOccurrence ==
    pc = "validated" =>
        LET reports == DuplicateReports(validation.errors)
            later == LaterOccurrences(students)
        IN /\ Len(reports) = Cardinality(later)
           /\ \A k \in 1..Len(reports) :
                 reports[k].message
                     = DuplicateMessage \o students[Nth(later, k)].seatNumber
           /\ \A i \in 1..Len(students) :
                 Cardinality({k \in 1..Len(reports) :
                     reports[k].message = DuplicateMessage \o students[i].seatNumber})
                 = Cardinality({j \in 1..Len(students) :
                       students[j].seatNumber = students[i].seatNumber}) - 1

\* a validated batch in which one seat number occurs three times and another one
\* twice or in which two seat numbers are repeated in turn
C7_Witness ==
    /\ pc = "validated"
    /\ Len(students) = 4
    /\ \/ /\ students[1].seatNumber = students[3].seatNumber
          /\ students[2].seatNumber = students[4].seatNumber
          /\ students[1].seatNumber # students[2].seatNumber
          /\ Len(DuplicateReports(validation.errors)) = 2
       \/ /\ students[1].seatNumber = students[2].seatNumber
          /\ students[1].seatNumber = students[4].seatNumber
          /\ students[1].seatNumber # students[3].seatNumber
          /\ Len(DuplicateReports(validation.errors)) = 2

\* the checks of the validator on one record
SeatFormatFails(s) == ~(Len(s.seatNumber) = 7
                        /\ \A p \in 1..Len(s.seatNumber) : Ch(s.seatNumber, p) \in Digit)
NameFails(s) == Len(Trim(s.name)) < 2
TotalMarksFails(s) == s.totalMarks < 0 \/ s.totalMarks > s.maxMarks
SgpaFails(s) == s.sgpa < 0 \/ s.sgpa > 1000
PassWithKT(s) == s.result = "PASS" /\ s.kt.hasKT
GradePointFails(sb) == /\ sb.marks.grade \in {"O", "A+", "A", "B+", "B", "C", "D", "F"}
                       /\ sb.marks.gradePoint #
                              (CASE sb.marks.grade = "O" -> 10 [] sb.marks.grade = "A+" -> 9
                                 [] sb.marks.grade = "A" -> 8 [] sb.marks.grade = "B+" -> 7
                                 [] sb.marks.grade = "B" -> 6 [] sb.marks.grade = "C" -> 5
                                 [] sb.marks.grade = "D" -> 4 [] OTHER -> 0)
CreditPointsFail(sb) ==
    Abs(sb.marks.creditPoints - sb.marks.credits * sb.marks.gradePoint) > 10

\* an entry for the field, about the student of that seat number
Reported(entries, field, seat) ==
    \E k \in 1..Len(entries) : entries[k].field = field /\ entries[k].studentSeat = seat

\* the soft checks: each failed one is among the warnings and not among the errors
SoftChecksAreWarnings(s, result) ==
    /\ TotalMarksFails(s) => Reported(result.warnings, "totalMarks", s.seatNumber)
    /\ SgpaFails(s) => Reported(result.warnings, "sgpa", s.seatNumber)
    /\ PassWithKT(s) => Reported(result.warnings, "result", s.seatNumber)
    /\ \A n \in 1..Len(s.subjects) :
          /\ GradePointFails(s.subjects[n]) =>
                Reported(result.warnings,
                         "subject." \o s.subjects[n].code \o ".gradePoint", s.seatNumber)
          /\ CreditPointsFail(s.subjects[n]) =>
                Reported(result.warnings,
                         "subject." \o s.subjects[n].code \o ".creditPoints", s.seatNumber)
    /\ \A k \in 1..Len(result.errors) :
          result.errors[k].field \in {"seatNumber", "name"}

C10_TotalKTCountsFlaggedSubjects ==
    \A i \in 1..Len(students) :
        students[i].kt.totalKT
            = Cardinality({n \in 1..Len(students[i].subjects) :
                              students[i].subjects[n].isKT})

----------------------------------------------------------------------------
(* Subject assembly from extracted mark rows: the inputs *)

\* subjects per aggregate row and marks per component row
MaxRowLen == 2

\* the aggregate entries of a failed subject, a cleared one and an absent one
TotTexts == {" 20 0 F 3 0.0", " 50 8 A 3 24.0", " 0 0 AB 3 0.0"}

\* the component marks: zero or not
MarkTexts == {" 0", " 12"}

\* the texts of n entries drawn from S, one after the other
RECURSIVE Repeated(_, _)
Repeated(S, n) == IF n = 0 THEN {""}
                  ELSE {t \o e : t \in Repeated(S, n - 1), e \in S}

\* a component row: missing from the block, or a line of 0..MaxRowLen marks
ComponentLines(label) ==
    {<<>>} \cup {<<label \o t>> : t \in UNION {Repeated(MarkTexts, n) : n \in 0..MaxRowLen}}

\* a term-work or oral row: missing, or the same mark for every subject
UniformLines(label) ==
    {<<>>} \cup {<<label \o t>> : t \in UNION {Repeated({m}, MaxRowLen) : m \in MarkTexts}}

\* the aggregate row of 1..MaxRowLen subjects
TotLines == {<<"TOT" \o t>> : t \in UNION {Repeated(TotTexts, n) : n \in 1..MaxRowLen}}

\* the blocks: a header, the registration number, component rows, an aggregate row
SubjectBlocks ==
    {<<Header1, ErnA>> \o t \o o \o e \o i \o tot :
        t \in UniformLines("T1"), o \in UniformLines("O1"),
        e \in ComponentLines("E1"), i \in ComponentLines("I1"), tot \in TotLines}

----------------------------------------------------------------------------
(* Subject assembly from extracted mark rows: parseStudentBlock from the end *)
(* of extractMarkRows on                                                    *)

InitSubjects ==
    /\ lines \in SubjectBlocks
    /\ blocks = <<BlockOf(lines)>>
    /\ rows = extractMarkRows(lines)
    /\ pc = "scan"
    /\ idx = Len(lines)
    /\ records = <<>>
    /\ response = NoResponse
    /\ students = <<>>
    /\ validation = NullValidation
    /\ analysis = NullAnalysis
    /\ IoIdle

NextSubjects == AssembleStudent

SpecSubjects == InitSubjects /\ [][NextSubjects]_vars

----------------------------------------------------------------------------
(* Properties of the subject assembly (SpecSubjects) *)

\* the subjects of the assembled record
AssembledSubjects == IF Len(records) = 1 /\ ~records[1].null THEN records[1].subjects
                     ELSE <<>>

\* the component marks of a subject in the fixed order of the classification
ComponentOrder == <<"external", "internal", "termWork", "oral">>

\* the component is present and its mark is zero
ZeroComponent(sb, c) == sb.marks[c] # NoNum /\ sb.marks[c] = 0

\* C11: a backlog subject one of whose components is present and zero has the type
\* of the first such component in the order external, internal, term work, oral;
\* an absent component is never the one chosen.
C11_BacklogTypeByFirstZeroComponent ==
    \A n \in 1..Len(AssembledSubjects) :
        LET sb == AssembledSubjects[n]
        IN sb.isKT =>
              \A k \in 1..Len(ComponentOrder) :
                  (/\ ZeroComponent(sb, ComponentOrder[k])
                   /\ \A j \in 1..(k - 1) : ~ZeroComponent(sb, ComponentOrder[j]))
                  => /\ sb.ktType = ComponentOrder[k]
                     /\ sb.marks[sb.ktType] # NoNum

\* a record with a backlog subject whose external and internal marks are both zero
\* and a backlog subject whose external mark is absent and internal mark is zero
C11_Witness ==
    /\ Len(AssembledSubjects) = 2
    /\ LET s1 == AssembledSubjects[1]
           s2 == AssembledSubjects[2]
       IN /\ s1.isKT /\ s1.marks.external = 0 /\ s1.marks.internal = 0
          /\ s1.ktType = "external"
          /\ s2.isKT /\ s2.marks.external = NoNum /\ s2.marks.internal = 0
          /\ s2.ktType = "internal"

\* ALL_SUBJECTS of the exporter: the theory subjects and the lab subjects
TheoryCodes == {"10411", "10412", "10413", "10414", "10415"}
LabCodes == {"10416", "10417", "10418", "10419", "10420", "10421", "10422", "10423",
             "10424"}

\* C19: a backlog subject none of whose present components is zero has the type
\* "overall" only when its code is neither a theory subject nor a lab subject.
C19_BacklogTypeFromSubjectTables ==
    \A n \in 1..Len(AssembledSubjects) :
        LET sb == AssembledSubjects[n]
        IN (/\ sb.isKT
            /\ \A k \in 1..Len(ComponentOrder) : ~ZeroComponent(sb, ComponentOrder[k]))
           => (sb.ktType = "overall" => sb.code \notin TheoryCodes \cup LabCodes)

----------------------------------------------------------------------------
(* One mark row through the row parsers: the inputs *)

\* the mark tokens of a component row, with and without grace marks
MarkTokens == {" 38@5", " 20", " 0", " 12@3"}

\* the entries of an aggregate row: a carried-over total ("+"), a total with
\* grace marks, a plain total
TotEntryTexts == {" 77+ 7 B+ 3 21.0", " 38@5 4 D 2 8.0", " 50 8 A 3 24.0"}

ComponentLabels == {"T1", "O1", "E1", "I1"}

\* a mark row of 1..MaxRowLen entries
MarkRowLines ==
    {label \o t : label \in ComponentLabels,
                  t \in UNION {Repeated(MarkTokens, n) : n \in 1..MaxRowLen}}
    \cup {"TOT" \o t : t \in UNION {Repeated(TotEntryTexts, n) : n \in 1..MaxRowLen}}

----------------------------------------------------------------------------
(* One mark row through the row parsers of the two copies of the record parser *)

InitRows ==
    /\ lines \in {<<l>> : l \in MarkRowLines}
    /\ pc = "row"
    /\ rows = EmptyMarkRows
    /\ blocks = <<>>
    /\ records = <<>>
    /\ idx = 0
    /\ response = NoResponse
    /\ students = <<>>
    /\ validation = NullValidation
    /\ analysis = NullAnalysis
    /\ IoIdle

\* the iteration of extractMarkRows of recordParser.ts on the row
ParseMarkRow ==
    /\ pc = "row"
    /\ rows' = ExtractLine(rows, lines[1])
    /\ pc' = "recordParser"
    /\ UNCHANGED <<lines, blocks, records, idx, response, students, validation, analysis>>
    /\ UNCHANGED ioVars

\* the iteration of extractMarkRows of part_003 on a component row
ParseMarkRow_part003 ==
    /\ pc = "row"
    /\ ~StartsWith(Trim(lines[1]), "TOT")
    /\ rows' = ExtractComponent_part003(rows, Trim(lines[1]))
    /\ pc' = "part_003"
    /\ UNCHANGED <<lines, blocks, records, idx, response, students, validation, analysis>>
    /\ UNCHANGED ioVars

NextRows == ParseMarkRow \/ ParseMarkRow_part003

SpecRows == InitRows /\ [][NextRows]_vars

----------------------------------------------------------------------------
(* Properties of the row parsers (SpecRows) *)

\* raw marks plus grace marks of a mark token
MarkValue(token) ==
    CASE token = "38@5" -> 38 + 5
      [] token = "12@3" -> 12 + 3
      [] token = "20" -> 20
      [] token = "0" -> 0
      [] token = "77+" -> 77
      [] token = "50" -> 50

\* the label of the row and the tokens after it
RowLabel == IF StartsWith(lines[1], "TOT") THEN "TOT" ELSE SubSeq(lines[1], 1, 2)
RowTokens == Tokens(SubSeq(lines[1], Len(RowLabel) + 1, Len(lines[1])))

\* C12: a parsed component row holds raw plus grace of each of its tokens, and a
\* parsed aggregate row holds, as each subject's total, raw plus grace of the
\* subject's first token, a "+" after the total adding nothing.
C12_MarkTokensRawPlusGrace ==
    pc \in {"recordParser", "part_003"} =>
        IF RowLabel = "TOT"
        THEN /\ Len(rows.TOT) * 5 = Len(RowTokens)
             /\ \A k \in 1..Len(rows.TOT) :
                   rows.TOT[k].total = MarkValue(RowTokens[5 * (k - 1) + 1])
        ELSE /\ ~rows[RowLabel].null
             /\ Len(rows[RowLabel].marks) = Len(RowTokens)
             /\ \A k \in 1..Len(RowTokens) :
                   rows[RowLabel].marks[k] = MarkValue(RowTokens[k])

----------------------------------------------------------------------------
(* Further properties of the page pipeline (Spec) *)

\* the first line of the block starts, after blanks, with seven digits
SeatOnFirstLine(block) ==
    LET l == SplitOn(block.text, "\n")[1]
        a == Span(l, 1, Ws)
    IN \A p \in a..(a + 6) : Ch(l, p) \in Digit

\* C13: every parsed block whose first line starts with a 7-digit seat number
\* yields a record; only a block without a seat number is rejected.
C13_RejectedOnlyWithoutSeatNumber ==
    \A k \in 1..Len(records) :
        records[k].null => ~SeatOnFirstLine(blocks[k])

\* findStudentBlocks has returned and no block has been parsed yet (parsing
\* changes neither the lines nor the blocks)
Segmented == pc = "blocks" /\ idx = 0

\* the record-start lines of the page (0-based), and the k-th of them
RecordStarts == {i \in 0..(Len(lines) - 1) : isSeatNumberLine(lines[i + 1])}
RecordStart(k) ==
    CHOOSE i \in RecordStarts : Cardinality({j \in RecordStarts : j < i}) = k - 1

\* the last line of the k-th block: the line before the next record start, or the
\* last line of the page
BlockEnd(k) ==
    IF k < Cardinality(RecordStarts) THEN RecordStart(k + 1) - 1 ELSE Len(lines) - 1

TrailingLines(k) ==
    {SplitOn(blocks[k].text, "\n")[j + 1] :
        j \in Max(10, Len(SplitOn(blocks[k].text, "\n")) - 8)
              ..(Len(SplitOn(blocks[k].text, "\n")) - 1)}

\* C25: a block's pendingErn, when set, is a valid registration number that stands
\* on a trailing line of the block just before it; the first block of the page has
\* none, and a block whose predecessor has no registration number on its trailing
\* lines has none either.
C25_PendingErnFromPredecessorOnly ==
    Segmented =>
        \A k \in 1..Len(blocks) :
            IF blocks[k].pendingErn # UNDEFINED
            THEN /\ k > 1
                 /\ isValidErn(blocks[k].pendingErn)
                 /\ \E l \in TrailingLines(k - 1) : blocks[k].pendingErn \in FullErnsIn(l)
            ELSE k > 1 => \A l \in TrailingLines(k - 1) : FullErnsIn(l) = {}

\* a page of three blocks: the first hands its trailing registration number to the
\* second, the third receives nothing
C25_Witness ==
    /\ Segmented
    /\ Len(blocks) = 3
    /\ blocks[1].pendingErn = UNDEFINED
    /\ blocks[2].pendingErn = "MU0341120250220778"
    /\ blocks[3].pendingErn = UNDEFINED

----------------------------------------------------------------------------
(* Properties of the analysis of a batch (SpecBatch) *)

\* the analysis of the result was generated from its students
AnalysisGenerated == pc # "response" /\ response.analysis.null

\* the marks classes with their least totals out of 800 (75%, 60%, 50%, 40%)
InMarksClass(s, c) ==
    CASE c = "distinction" -> s.totalMarks >= 600
      [] c = "firstClass" -> s.totalMarks >= 480 /\ s.totalMarks < 600
      [] c = "secondClass" -> s.totalMarks >= 400 /\ s.totalMarks < 480
      [] c = "passClass" -> s.totalMarks >= 320 /\ s.totalMarks < 400 /\ s.result = "PASS"
      [] c = "fail" -> \/ s.totalMarks < 320
                       \/ s.totalMarks < 400 /\ s.result # "PASS"

MarksClasses == {"distinction", "firstClass", "secondClass", "passClass", "fail"}

BucketSum(distribution) == SumOver(distribution, DOMAIN distribution)

C15_AnalysisIsGeneratedFromStudents ==
    pc # "response" => analysis = generateAnalysis(students)

----------------------------------------------------------------------------
(* One run of parseResultPdf: the inputs *)

\* students in the response of a run
MaxRunStudents == 1

\* an HTTP response of the parser service: its status, whether its body is JSON,
\* the error field of an error body, and the students and analysis of a result
\* body (mappable: students, when present, is an array)
HttpResponse(ok, status, json, error, mappable, body) ==
    [ok |-> ok, status |-> status, json |-> json, error |-> error,
     mappable |-> mappable, students |-> body.students, analysis |-> body.analysis]

RunResponses ==
    {HttpResponse(TRUE, "200", TRUE, UNDEFINED, TRUE, b) : b \in ResponsesUpTo(MaxRunStudents)}
    \cup {HttpResponse(TRUE, "200", FALSE, UNDEFINED, TRUE, NoResponse),
          HttpResponse(TRUE, "200", TRUE, UNDEFINED, FALSE, NoResponse),
          HttpResponse(FALSE, "500", TRUE, "Unsupported PDF layout", TRUE, NoResponse),
          HttpResponse(FALSE, "422", TRUE, UNDEFINED, TRUE, NoResponse),
          HttpResponse(FALSE, "502", FALSE, UNDEFINED, TRUE, NoResponse)}

----------------------------------------------------------------------------
(* One run of parseResultPdf with a progress callback and an abort signal *)

InitRun ==
    /\ pc = "call"
    /\ aborted \in BOOLEAN
    /\ log = IF aborted THEN <<LogEntry("abort", "call")>> ELSE <<>>
    /\ events = <<>>
    /\ outcome = Pending
    /\ pageNum = 0
    /\ totalPages = 0
    /\ yielded = <<>>
    /\ rowTokens = <<>>
    /\ AppIdle
    /\ response = NoResponse
    /\ students = <<>>
    /\ analysis = NullAnalysis
    /\ validation = NullValidation
    /\ lines = <<>>
    /\ blocks = <<>>
    /\ records = <<>>
    /\ idx = 0
    /\ rows = EmptyMarkRows

\* onProgress({status: "extracting"})
EmitExtracting ==
    /\ pc = "call"
    /\ events' = Append(events, ProgressEvent("extracting", NULL))
    /\ pc' = "check"
    /\ UNCHANGED <<aborted, outcome, log, pageNum, totalPages, yielded, rowTokens, appVars>>
    /\ UNCHANGED <<lines, blocks, records, idx, rows, response, students, validation, analysis>>

\* if (signal?.aborted) throw new DOMException(...); onProgress({status: "parsing"})
CheckCancelled ==
    /\ pc = "check"
    /\ IF aborted
       THEN /\ outcome' = Thrown(AbortError("Parsing cancelled"))
            /\ pc' = "catch"
            /\ events' = events
       ELSE /\ events' = Append(events, ProgressEvent("parsing", NULL))
            /\ pc' = "send"
            /\ outcome' = outcome
    /\ UNCHANGED <<aborted, log, pageNum, totalPages, yielded, rowTokens, appVars>>
    /\ UNCHANGED <<lines, blocks, records, idx, rows, response, students, validation, analysis>>

\* fetch("/api/parse", {method: "POST", body: formData, signal})
SendRequest ==
    /\ pc = "send"
    /\ log' = Append(log, LogEntry("fetch", "/api/parse"))
    /\ pc' = "fetching"
    /\ UNCHANGED <<events, aborted, outcome, pageNum, totalPages, yielded, rowTokens, appVars>>
    /\ UNCHANGED <<lines, blocks, records, idx, rows, response, students, validation, analysis>>

\* the caller aborts the signal while the function is suspended in an await
Abort ==
    /\ pc \in {"fetching", "readBody", "readError"}
    /\ ~aborted
    /\ aborted' = TRUE
    /\ log' = Append(log, LogEntry("abort", pc))
    /\ UNCHANGED <<pc, events, outcome, pageNum, totalPages, yielded, rowTokens, appVars>>
    /\ UNCHANGED <<lines, blocks, records, idx, rows, response, students, validation, analysis>>

\* await fetch(...) rejects: with AbortError once the signal is aborted, with a
\* TypeError when the request fails
FetchRejects ==
    /\ pc = "fetching"
    /\ IF aborted
       THEN /\ outcome' = Thrown(AbortError("The operation was aborted."))
            /\ log' = Append(log, LogEntry("settle", "aborted"))
       ELSE /\ outcome' = Thrown(ErrorOf("TypeError", "Failed to fetch"))
            /\ log' = Append(log, LogEntry("settle", "failed"))
    /\ pc' = "catch"
    /\ UNCHANGED <<events, aborted, pageNum, totalPages, yielded, rowTokens, appVars>>
    /\ UNCHANGED <<lines, blocks, records, idx, rows, response, students, validation, analysis>>

\* await fetch(...) resolves with a response; if (!response.ok) ...
FetchResolves ==
    /\ pc = "fetching"
    /\ ~aborted
    /\ \E r \in RunResponses :
          /\ response' = r
          /\ pc' = IF r.ok THEN "readBody" ELSE "readError"
          /\ log' = Append(log, LogEntry("settle", IF r.ok THEN "ok" ELSE "notOk"))
    /\ UNCHANGED <<events, aborted, outcome, pageNum, totalPages, yielded, rowTokens, appVars>>
    /\ UNCHANGED <<lines, blocks, records, idx, rows, students, validation, analysis>>

\* const errorData = await response.json().catch(...); throw new Error(...)
ReadErrorBody ==
    /\ pc = "readError"
    /\ outcome' = Thrown(HttpError(response, aborted))
    /\ pc' = "catch"
    /\ UNCHANGED <<events, aborted, log, pageNum, totalPages, yielded, rowTokens, appVars>>
    /\ UNCHANGED <<lines, blocks, records, idx, rows, response, students, validation, analysis>>

\* const result = await response.json()
ReadBody ==
    /\ pc = "readBody"
    /\ IF aborted
       THEN outcome' = Thrown(AbortError("The operation was aborted.")) /\ pc' = "catch"
       ELSE IF ~response.json
       THEN outcome' = Thrown(ErrorOf("SyntaxError", "Unexpected token")) /\ pc' = "catch"
       ELSE outcome' = outcome /\ pc' = "analyze"
    /\ UNCHANGED <<events, aborted, log, pageNum, totalPages, yielded, rowTokens, appVars>>
    /\ UNCHANGED <<lines, blocks, records, idx, rows, response, students, validation, analysis>>

\* onProgress({status: "analyzing"})
EmitAnalyzing ==
    /\ pc = "analyze"
    /\ events' = Append(events, ProgressEvent("analyzing", NULL))
    /\ pc' = "map"
    /\ UNCHANGED <<aborted, outcome, log, pageNum, totalPages, yielded, rowTokens, appVars>>
    /\ UNCHANGED <<lines, blocks, records, idx, rows, response, students, validation, analysis>>

\* the mapping of the students and the analysis; (result.students || []).map throws
\* a TypeError when students is no array
MapResponse ==
    /\ pc = "map"
    /\ IF response.mappable
       THEN /\ students' = parseResultPdf(response).students
            /\ analysis' = parseResultPdf(response).analysis
            /\ pc' = "complete"
            /\ outcome' = outcome
       ELSE /\ outcome' = Thrown(ErrorOf("TypeError", "map is not a function"))
            /\ pc' = "catch"
            /\ UNCHANGED <<students, analysis>>
    /\ UNCHANGED <<events, aborted, log, pageNum, totalPages, yielded, rowTokens, appVars>>
    /\ UNCHANGED <<lines, blocks, records, idx, rows, response, validation>>

\* onProgress({status: "complete"}); return {students, metadata, analysis}
EmitComplete ==
    /\ pc = "complete"
    /\ events' = Append(events, ProgressEvent("complete", NULL))
    /\ outcome' = Resolved
    /\ pc' = "done"
    /\ UNCHANGED <<aborted, log, pageNum, totalPages, yielded, rowTokens, appVars>>
    /\ UNCHANGED <<lines, blocks, records, idx, rows, response, students, validation, analysis>>

\* catch (error): the cancelled or error event, then throw error
Catch ==
    /\ pc = "catch"
    /\ events' = EventsAfterCatch(events, outcome.error)
    /\ outcome' = Rejected(outcome.error)
    /\ pc' = "done"
    /\ UNCHANGED <<aborted, log, pageNum, totalPages, yielded, rowTokens, appVars>>
    /\ UNCHANGED <<lines, blocks, records, idx, rows, response, students, validation, analysis>>

NextRun ==
    \/ EmitExtracting \/ CheckCancelled \/ SendRequest \/ Abort
    \/ FetchRejects \/ FetchResolves \/ ReadErrorBody \/ ReadBody
    \/ EmitAnalyzing \/ MapResponse \/ EmitComplete \/ Catch

SpecRun == InitRun /\ [][NextRun]_vars

----------------------------------------------------------------------------
(* Properties of a run of parseResultPdf (SpecRun) *)

RunDone == pc = "done"

\* the statuses of the progress events, in order
Statuses == [k \in 1..Len(events) |-> events[k].status]
Emitted(status) == \E k \in 1..Len(events) : events[k].status = status
LastStatus == IF Len(events) = 0 THEN NULL ELSE events[Len(events)].status

\* the log holds an entry of the kind
Logged(op, at) == \E k \in 1..Len(log) : log[k].op = op /\ log[k].at = at

\* the signal was aborted before the call, or while the request was in flight
\* (the fetch pending, or the body of its response still being read)
AbortedBeforeCall == Logged("abort", "call")
AbortedInFlight ==
    Logged("abort", "fetching") \/ Logged("abort", "readBody") \/ Logged("abort", "readError")

\* C16: a run whose signal was aborted before the call or while the request was in
\* flight rejects with the AbortError, ends with the event "cancelled", emits
\* neither "error" nor "complete", computes no analysis and returns no students;
\* with the signal aborted before the call no request is sent.
C16_CancelledRunEndsCancelled ==
    (RunDone /\ (AbortedBeforeCall \/ AbortedInFlight)) =>
        /\ outcome.kind = "rejected"
        /\ IsAbortError(outcome.error)
        /\ LastStatus = "cancelled"
        /\ ~Emitted("error") /\ ~Emitted("complete")
        /\ analysis.null /\ students = <<>>
        /\ AbortedBeforeCall => ~\E k \in 1..Len(log) : log[k].op = "fetch"

\* the request failed for a reason other than cancellation: fetch threw without
\* the signal aborted, or the response status was not OK
RequestFailed == Logged("settle", "failed") \/ Logged("settle", "notOk")

\* C17: a run whose request failed for a reason other than cancellation ends with
\* the event "error" that carries the message of the error it rejects with, emits
\* neither "analyzing" nor "complete" nor "cancelled", and computes no analysis.
C17_FailedRequestEndsWithError ==
    (RunDone /\ RequestFailed) =>
        /\ outcome.kind = "rejected"
        /\ ~IsAbortError(outcome.error)
        /\ events[Len(events)] = ProgressEvent("error", outcome.error.message)
        /\ ~Emitted("analyzing") /\ ~Emitted("complete") /\ ~Emitted("cancelled")
        /\ analysis.null /\ students = <<>>

\* a finished run whose request was answered with HTTP 500 and the error text of
\* the service
C17_Witness ==
    /\ RunDone
    /\ Logged("settle", "notOk")
    /\ response.status = "500"
    /\ ~aborted
    /\ outcome.kind = "rejected"
    /\ outcome.error.message = "Unsupported PDF layout"
    /\ Statuses = <<"extracting", "parsing", "error">>

TerminalStatuses == {"complete", "cancelled", "error"}

\* C18: every progress event has one of the six statuses; at most one terminal
\* event is ever emitted and nothing follows it; a finished run has emitted exactly
\* one, as its last event; a run that returns has emitted extracting, parsing,
\* analyzing, complete, in that order.
C18_ProgressEventsEndWithOneTerminal ==
    /\ \A k \in 1..Len(events) :
          events[k].status \in {"extracting", "parsing", "analyzing"} \cup TerminalStatuses
    /\ \A k \in 1..Len(events) : events[k].status \in TerminalStatuses => k = Len(events)
    /\ RunDone => LastStatus \in TerminalStatuses
    /\ (RunDone /\ outcome.kind = "resolved") =>
          Statuses = <<"extracting", "parsing", "analyzing", "complete">>
    /\ LastStatus = "complete" => RunDone /\ outcome.kind = "resolved"

\* a run that returned a result with students, and one that failed after the event
\* "analyzing", each with its one terminal event
C18_Witness ==
    /\ RunDone
    /\ \/ /\ outcome.kind = "resolved"
          /\ Len(students) = MaxRunStudents
          /\ Statuses = <<"extracting", "parsing", "analyzing", "complete">>
       \/ /\ outcome.kind = "rejected"
          /\ Statuses = <<"extracting", "parsing", "analyzing", "error">>

----------------------------------------------------------------------------
(* extractPdfText: the page generator and its abort signal *)

\* pages of the longest document
MaxPages == 3

\* a loop head that never looks at the signal
PageStepUnchecked(p, n, signalAborted) == IF p > n THEN "return" ELSE "fetch"

\* the head of the page loop: pageNum <= totalPages, then the check of the signal
PageStep(p, n, signalAborted) ==
    IF p > n THEN "return"
    ELSE IF signalAborted THEN "throw"
    ELSE "fetch"

\* an entry of the log of the generator: a call to the document, a yield, or an
\* abort of the signal, with the page the generator is at
PageEntry(op, at, page) == [op |-> op, at |-> at, page |-> page]

InitExtract ==
    /\ pc = "start"
    /\ aborted = FALSE
    /\ log = <<>>
    /\ events = <<>>
    /\ outcome = Pending
    /\ pageNum = 0
    /\ totalPages = 0
    /\ yielded = <<>>
    /\ rowTokens = <<>>
    /\ AppIdle
    /\ response = NoResponse
    /\ students = <<>>
    /\ analysis = NullAnalysis
    /\ validation = NullValidation
    /\ lines = <<>>
    /\ blocks = <<>>
    /\ records = <<>>
    /\ idx = 0
    /\ rows = EmptyMarkRows

\* from the loop head for page p of n to the next suspension: the generator leaves the
\* loop, throws, or reports the page and calls pdf.getPage(p)
LoopHead(p, n) ==
    /\ pageNum' = p
    /\ IF PageStep(p, n, aborted) = "return"
       THEN /\ pc' = "destroy"
            /\ UNCHANGED <<outcome, events, log>>
       ELSE IF PageStep(p, n, aborted) = "throw"
       THEN /\ outcome' = Thrown(AbortError("Extraction cancelled"))
            /\ pc' = "destroy"
            /\ UNCHANGED <<events, log>>
       ELSE /\ events' = Append(events, ProgressEvent("extracting", NULL))
            /\ log' = Append(log, PageEntry("getPage", "page", p))
            /\ pc' = "getPage"
            /\ outcome' = outcome

\* the caller aborts the signal while the generator is suspended: not yet started,
\* in an await, or at a yield
AbortExtraction ==
    /\ pc \in {"start", "document", "getPage", "getTextContent", "yield", "destroy"}
    /\ ~aborted
    /\ aborted' = TRUE
    /\ log' = Append(log, PageEntry("abort", pc, pageNum))
    /\ UNCHANGED <<pc, events, outcome, pageNum, totalPages, yielded, rowTokens, appVars>>
    /\ UNCHANGED <<lines, blocks, records, idx, rows, response, students, validation, analysis>>

\* await loadPdfJs(); await file.arrayBuffer(); the first check of the signal;
\* pdfjs.getDocument(...)
ReadFile ==
    /\ pc = "start"
    /\ IF aborted
       THEN /\ outcome' = Rejected(AbortError("Extraction cancelled"))
            /\ pc' = "done"
            /\ log' = log
       ELSE /\ log' = Append(log, PageEntry("getDocument", "file", 0))
            /\ pc' = "document"
            /\ outcome' = outcome
    /\ UNCHANGED <<events, aborted, pageNum, totalPages, yielded, rowTokens, appVars>>
    /\ UNCHANGED <<lines, blocks, records, idx, rows, response, students, validation, analysis>>

\* await loadingTask.promise; totalPages = pdf.numPages; the loop head of page 1
DocumentLoaded ==
    /\ pc = "document"
    /\ \E n \in 0..MaxPages : totalPages' = n /\ LoopHead(1, n)
    /\ UNCHANGED <<aborted, yielded, rowTokens, appVars>>
    /\ UNCHANGED <<lines, blocks, records, idx, rows, response, students, validation, analysis>>

\* await pdf.getPage(pageNum) resolves; page.getTextContent()
PageLoaded ==
    /\ pc = "getPage"
    /\ log' = Append(log, PageEntry("getTextContent", "page", pageNum))
    /\ pc' = "getTextContent"
    /\ UNCHANGED <<events, aborted, outcome, pageNum, totalPages, yielded, rowTokens, appVars>>
    /\ UNCHANGED <<lines, blocks, records, idx, rows, response, students, validation, analysis>>

\* await page.getTextContent() resolves; the lines are rebuilt; yield {pageNumber, ...}
TextLoaded ==
    /\ pc = "getTextContent"
    /\ yielded' = Append(yielded, pageNum)
    /\ log' = Append(log, PageEntry("yield", "page", pageNum))
    /\ pc' = "yield"
    /\ UNCHANGED <<events, aborted, outcome, pageNum, totalPages, rowTokens, appVars>>
    /\ UNCHANGED <<lines, blocks, records, idx, rows, response, students, validation, analysis>>

\* the consumer asks for the next page: pageNum++ and the loop head
Resume ==
    /\ pc = "yield"
    /\ LoopHead(pageNum + 1, totalPages)
    /\ UNCHANGED <<aborted, totalPages, yielded, rowTokens, appVars>>
    /\ UNCHANGED <<lines, blocks, records, idx, rows, response, students, validation, analysis>>

\* finally { await pdf.destroy() }: the generator ends, by returning or by the
\* error thrown in the loop
Destroyed ==
    /\ pc = "destroy"
    /\ log' = Append(log, PageEntry("destroy", "finally", pageNum))
    /\ outcome' = IF outcome.kind = "thrown" THEN Rejected(outcome.error) ELSE Resolved
    /\ pc' = "done"
    /\ UNCHANGED <<events, aborted, pageNum, totalPages, yielded, rowTokens, appVars>>
    /\ UNCHANGED <<lines, blocks, records, idx, rows, response, students, validation, analysis>>

NextExtract ==
    \/ AbortExtraction \/ ReadFile \/ DocumentLoaded
    \/ PageLoaded \/ TextLoaded \/ Resume \/ Destroyed

SpecExtract == InitExtract /\ [][NextExtract]_vars

----------------------------------------------------------------------------
(* Properties of the page generator (SpecExtract) *)

\* the pages are yielded in increasing order: 1, 2, ...
YieldedInOrder == \A k \in 1..Len(yielded) : yielded[k] = k

PageOps == {"getPage", "getTextContent", "yield"}

EndsWithAbortError ==
    outcome.kind = "rejected" /\ IsAbortError(outcome.error)

\* C20 as stated: pages are yielded in increasing order; after the signal is
\* aborted no page is fetched or yielded; a generator whose signal was aborted ends
\* by throwing AbortError.
C20_NothingAfterAbort ==
    /\ YieldedInOrder
    /\ \A j \in 1..Len(log) : \A k \in 1..Len(log) :
          (j < k /\ log[j].op = "abort") => log[k].op \notin PageOps
    /\ (pc = "done" /\ aborted) => EndsWithAbortError

\* the signal was aborted before some check of the loop ran: before the generator
\* read the file, or before the loop head of a page of the document
AbortedBeforeACheck ==
    \E j \in 1..Len(log) :
        /\ log[j].op = "abort"
        /\ \/ log[j].at = "start"
           \/ log[j].at \in {"document", "getPage", "getTextContent", "yield"}
              /\ log[j].page < totalPages

\* C20 amended: pages are yielded in increasing order; a page is requested only if
\* the signal was not aborted when the check before that page ran, so after an
\* abort only the page already requested is still read and yielded and no later
\* page is; the generator ends by throwing AbortError exactly when the abort came
\* before a check of the signal ran.
C20_NoPageRequestedAfterAbort ==
    /\ YieldedInOrder
    /\ \A j \in 1..Len(log) : \A k \in 1..Len(log) :
          (j < k /\ log[j].op = "abort" /\ log[k].op \in PageOps) =>
              /\ log[j].at \in {"getPage", "getTextContent"}
              /\ log[k].page = log[j].page
              /\ log[k].op # "getPage"
    /\ pc = "done" => (EndsWithAbortError <=> AbortedBeforeACheck)
    /\ (pc = "done" /\ ~EndsWithAbortError) =>
          outcome.kind = "resolved" /\ Len(yielded) = totalPages

\* a generator aborted while page 1 of a longer document was being fetched: page 1
\* was still yielded, page 2 never requested, and the generator threw AbortError
C20_Witness ==
    /\ pc = "done"
    /\ totalPages >= 2
    /\ Logged("abort", "getPage")
    /\ yielded = <<1>>
    /\ EndsWithAbortError
    /\ ~\E k \in 1..Len(log) : log[k].op = "getPage" /\ log[k].page = 2

----------------------------------------------------------------------------
(* One aggregate row through parseTotRow and parseSubjectsFromRows: the inputs *)

\* stray tokens in front of the quintuple of a row
MaxStray == 3

StrayTokens == {"X", "5", "7"}

\* the texts of n stray tokens, each followed by a blank
RECURSIVE StrayTexts(_)
StrayTexts(n) ==
    IF n = 0 THEN {""}
    ELSE {t \o " " \o rest : t \in StrayTokens, rest \in StrayTexts(n - 1)}

\* quintuples of the aggregate row: plain, with a grade of two letters, with a
\* "+" mark, with the grade fused with the credits, with grace marks, with a
\* lower-case grade, with a signed grade point
TotQuintuples ==
    {"20 0 F 3 0.0", "20 0 AB 3 0.0", "36+ 4 D 2 8.0", "50 8 A3 24.0",
     "38@5 4 d 2 8.0", "38 @5 4 D2 8.0", "50 0 f3 0.0", "50 -3 A 3 9.0"}

TotContents ==
    {" " \o stray \o q : stray \in UNION {StrayTexts(n) : n \in 0..MaxStray},
                         q \in TotQuintuples}

----------------------------------------------------------------------------
(* One aggregate row through parseTotRow, tier by tier, then through           *)
(* parseSubjectsFromRows                                                       *)

InitTot ==
    /\ lines \in {<<content>> : content \in TotContents}
    /\ pc = "strict"
    /\ rows = EmptyMarkRows
    /\ idx = 0
    /\ log = <<>>
    /\ records = <<>>
    /\ blocks = <<>>
    /\ response = NoResponse
    /\ students = <<>>
    /\ analysis = NullAnalysis
    /\ validation = NullValidation
    /\ events = <<>>
    /\ aborted = FALSE
    /\ outcome = Pending
    /\ pageNum = 0
    /\ totalPages = 0
    /\ yielded = <<>>
    /\ rowTokens = <<>>
    /\ AppIdle

\* the rest of the state, which parseTotRow does not touch
TotFrame ==
    UNCHANGED <<lines, blocks, response, students, validation, analysis,
                events, aborted, outcome, pageNum, totalPages, yielded, appVars>>

\* while ((match = strictPattern.exec(content)) !== null) ...; return if found
MatchStrict ==
    /\ pc = "strict"
    /\ rows' = [rows EXCEPT !.TOT = ExecAll(lines[1], 1, FALSE)]
    /\ pc' = IF Len(rows'.TOT) > 0 THEN "return" ELSE "alternate"
    /\ log' = Append(log, "strict")
    /\ UNCHANGED <<idx, records, rowTokens>>
    /\ TotFrame

\* while ((match = altPattern.exec(content)) !== null) ...; if (subjects.length === 0)
\* tokens = content.trim().split(/\s+/)
MatchAlternate ==
    /\ pc = "alternate"
    /\ rows' = [rows EXCEPT !.TOT = ExecAll(lines[1], 1, TRUE)]
    /\ pc' = IF Len(rows'.TOT) > 0 THEN "return" ELSE "walk"
    /\ log' = Append(log, "alternate")
    /\ idx' = 0
    /\ rowTokens' = SplitWs(lines[1])
    /\ UNCHANGED records
    /\ TotFrame

\* one iteration of the token walk
WalkStep ==
    /\ pc = "walk"
    /\ idx < Len(rowTokens)
    /\ \E step \in {WalkIteration(rowTokens, idx)} :
          /\ idx' = step.i
          /\ rows' = [rows EXCEPT !.TOT = WalkSubjects(rows.TOT, step)]
    /\ log' = IF idx = 0 THEN Append(log, "walk") ELSE log
    /\ UNCHANGED <<pc, records, rowTokens>>
    /\ TotFrame

\* the loop condition fails: return subjects
WalkEnd ==
    /\ pc = "walk"
    /\ idx >= Len(rowTokens)
    /\ pc' = "return"
    /\ UNCHANGED <<idx, rows, log, records, rowTokens>>
    /\ TotFrame

\* parseSubjectsFromRows on the rows that hold the aggregate row
BuildSubjects ==
    /\ pc = "return"
    /\ records' = parseSubjectsFromRows(rows)
    /\ pc' = "done"
    /\ UNCHANGED <<idx, rows, log, rowTokens>>
    /\ TotFrame

NextTot == MatchStrict \/ MatchAlternate \/ WalkStep \/ WalkEnd \/ BuildSubjects

SpecTot == InitTot /\ [][NextTot]_vars

\* the token walk alone, on every row: the loop keeps running while it can
InitWalk ==
    /\ lines \in {<<content>> : content \in TotContents}
    /\ pc = "walk"
    /\ rows = EmptyMarkRows
    /\ idx = 0
    /\ log = <<>>
    /\ records = <<>>
    /\ blocks = <<>>
    /\ response = NoResponse
    /\ students = <<>>
    /\ analysis = NullAnalysis
    /\ validation = NullValidation
    /\ events = <<>>
    /\ aborted = FALSE
    /\ outcome = Pending
    /\ pageNum = 0
    /\ totalPages = 0
    /\ yielded = <<>>
    /\ rowTokens = SplitWs(lines[1])
    /\ AppIdle

NextWalk == WalkStep \/ WalkEnd

SpecWalk == InitWalk /\ [][NextWalk]_vars /\ WF_vars(NextWalk)

----------------------------------------------------------------------------
(* Properties of the aggregate row (SpecTot, SpecWalk) *)

\* the tier ran
TierRan(tier) == \E k \in 1..Len(log) : log[k] = tier

\* the quintuple is among those of the sequence
Among(q, quintuples) == \E k \in 1..Len(quintuples) : quintuples[k] = q

\* C21: every quintuple the strict grammar accepts on a row is accepted by the
\* alternate grammar on that row.
C21_AlternateAcceptsWhatStrictAccepts ==
    (pc = "return" /\ log = <<"strict">>) =>
        \A k \in 1..Len(rows.TOT) : Among(rows.TOT[k], ExecAll(lines[1], 1, TRUE))


\* a well-formed quintuple of the token walk begins at token k (0-based)
WellFormedAt(k) == WalkIteration(rowTokens, k).pushed

\* the token fits no position of a quintuple: no number, no grade, no grade fused
\* with credits
FitsNowhere(token) ==
    /\ IsNaN(ParseInt(token))
    /\ IsNaN(ParseFloat(token))
    /\ ~IsGradeLetter(token)
    /\ ~IsMerged(token, MergedMatch(token))

WalkReturned == pc \in {"return", "done"} /\ TierRan("walk")

\* C22: after the token walk, the first well-formed quintuple that begins after a
\* token that fits no position is among the subjects of the row.
C22_QuintupleAfterMisfitIsParsed ==
    WalkReturned =>
        \A k \in 0..(Len(rowTokens) - 1) :
            (/\ WellFormedAt(k)
             /\ \A j \in 0..(k - 1) : ~WellFormedAt(j)
             /\ \E m \in 0..(k - 1) : FitsNowhere(rowTokens[m + 1])) =>
                Among(WalkIteration(rowTokens, k).sub, rows.TOT)

\* C26: every subject built from the aggregate row has a backlog type exactly
\* when it is flagged as a backlog.
C26_KtTypeExactlyWhenIsKT ==
    pc = "done" =>
        \A k \in 1..Len(records) : (records[k].ktType # NULL) <=> records[k].isKT

\* C28: every iteration of the token walk moves the token index forward by at
\* least one, and the loop ends.
C28_TokenWalkTerminates ==
    /\ [][(pc = "walk" /\ pc' = "walk") => idx' > idx]_vars
    /\ <>(pc = "return")

\* a row whose token walk skipped stray tokens, parsed its quintuple and returned
C28_Witness ==
    /\ pc = "return"
    /\ TierRan("walk")
    /\ Len(rowTokens) >= 6
    /\ idx >= Len(rowTokens)
    /\ Len(rows.TOT) = 1

----------------------------------------------------------------------------
(* reconstructTableLines: the text items of a page grouped into lines *)

\* a TextItem: its string and transform[4], transform[5], in tenths of a unit
TextItem(str, x, y) == [str |-> str, x |-> x, y |-> y]

\* const yThreshold = 3, and the width of an X bin, in tenths of a unit
yThreshold == 30
xBinWidth == 100

\* Math.round(item.transform[5] / yThreshold) * yThreshold
LineY(item) == Round(item.y, yThreshold) * yThreshold

\* Math.round(item.transform[4] / 10) * 10
XBin(item) == Round(item.x, xBinWidth) * xBinWidth

\* the keys of a set of numbers in descending (sort((a, b) => b - a)) and in
\* ascending (sort((a, b) => a - b)) order
RECURSIVE Descending(_)
Descending(S) ==
    IF S = {} THEN <<>>
    ELSE LET m == CHOOSE a \in S : \A b \in S : b <= a
         IN <<m>> \o Descending(S \ {m})

\* lineMap.get(y): the items of the page with that key, in the order of the page
LineItems(its, y) == SelectSeq(its, LAMBDA item : LineY(item) = y)

\* lineItems.sort((a, b) => a.transform[4] - b.transform[4]): a stable sort
RECURSIVE InsertByX(_, _)
InsertByX(sorted, item) ==
    IF Len(sorted) = 0 THEN <<item>>
    ELSE IF sorted[Len(sorted)].x <= item.x THEN Append(sorted, item)
    ELSE Append(InsertByX(SubSeq(sorted, 1, Len(sorted) - 1), item), sorted[Len(sorted)])

RECURSIVE SortByX(_)
SortByX(its) ==
    IF Len(its) = 0 THEN <<>>
    ELSE InsertByX(SortByX(SubSeq(its, 1, Len(its) - 1)), its[Len(its)])

\* colValues[colIndex] after the loop over the line: the trimmed strings of the
\* items of that X bin, concatenated
RECURSIVE ColValue(_, _)
ColValue(lineItems, xBin) ==
    IF Len(lineItems) = 0 THEN ""
    ELSE (IF XBin(lineItems[1]) = xBin THEN Trim(lineItems[1].str) ELSE "")
         \o ColValue(Tail(lineItems), xBin)

\* colValues.filter((v) => v.trim()).join("\t") of the line with key y
TableLine(its, y, columns) ==
    Join(SelectSeq([c \in 1..Len(columns) |-> ColValue(SortByX(LineItems(its, y)), columns[c])],
                   LAMBDA v : Trim(v) # ""),
         "\t")

\* reconstructTableLines(items): the lines of the page, top to bottom
reconstructTableLines(its) ==
    IF Len(its) = 0 THEN <<>>
    ELSE LET sortedYs == Descending({LineY(its[k]) : k \in 1..Len(its)})
             columns == Reverse(Descending({XBin(its[k]) : k \in 1..Len(its)}))
         IN SelectSeq([k \in 1..Len(sortedYs) |-> TableLine(its, sortedYs[k], columns)],
                      LAMBDA line : Trim(line) # "")

----------------------------------------------------------------------------
(* reconstructTableLines: the inputs *)

\* text items on a page
MaxItems == 3

\* the strings of the items of a page, by position
ItemStrs == <<"1402781", "DISHA", "Regular", " 52 ", "P", "FEMALE">>
ItemStr(k) == ItemStrs[((k - 1) % Len(ItemStrs)) + 1]

\* baselines around y = 700: 699.0, 700.4 and 700.6 (0.2 apart, on the two sides of
\* 700.5), 703.4 and 703.5 (a half: Math.round(234.5) = 235)
ItemYs == {6990, 7004, 7006, 7034, 7035}

\* left edges: 50.0 and 52.0 fall in one X bin, 150.0 in another
ItemXs == {500, 520, 1500}

RECURSIVE PagesOfItems(_)
PagesOfItems(n) ==
    IF n = 0 THEN {<<>>}
    ELSE {Append(its, TextItem(ItemStr(n), x, y)) :
             its \in PagesOfItems(n - 1), x \in ItemXs, y \in ItemYs}

----------------------------------------------------------------------------
(* reconstructTableLines on one page *)

InitLines ==
    /\ pc = "items"
    /\ items \in UNION {PagesOfItems(n) : n \in 0..MaxItems}
    /\ lines = <<>>
    /\ blocks = <<>>
    /\ records = <<>>
    /\ idx = 0
    /\ rows = EmptyMarkRows
    /\ response = NoResponse
    /\ students = <<>>
    /\ validation = NullValidation
    /\ analysis = NullAnalysis
    /\ events = <<>>
    /\ aborted = FALSE
    /\ outcome = Pending
    /\ log = <<>>
    /\ pageNum = 0
    /\ totalPages = 0
    /\ yielded = <<>>
    /\ rowTokens = <<>>
    /\ resultsCache = EmptyCache
    /\ now = 0
    /\ frames = <<>>
    /\ state = initialState
    /\ rendered = 0

\* lines = reconstructTableLines(textContent.items)
ReconstructTableLines ==
    /\ pc = "items"
    /\ lines' = reconstructTableLines(items)
    /\ pc' = "lines"
    /\ UNCHANGED <<blocks, records, idx, rows, response, students, validation, analysis>>
    /\ UNCHANGED <<events, aborted, outcome, log, pageNum, totalPages, yielded, rowTokens>>
    /\ UNCHANGED appVars

NextLines == ReconstructTableLines

SpecLines == InitLines /\ [][NextLines]_vars

----------------------------------------------------------------------------
(* Properties of reconstructTableLines (SpecLines) *)

\* the string occurs in the text
Occurs(sub, text) ==
    \E a \in 1..(Len(text) - Len(sub) + 1) : SubSeq(text, a, a + Len(sub) - 1) = sub

\* the two items of the page ended up in the same reconstructed line
OnOneLine(i, j) ==
    \E k \in 1..Len(lines) :
        Occurs(Trim(items[i].str), lines[k]) /\ Occurs(Trim(items[j].str), lines[k])

\* C24: any two fragments of a page whose y-coordinates differ by less than the row
\* threshold of 3 units are merged into the same logical line.
C24_FragmentsWithinThresholdShareALine ==
    pc = "lines" =>
        \A i, j \in 1..Len(items) :
            Abs(items[i].y - items[j].y) < yThreshold => OnOneLine(i, j)

----------------------------------------------------------------------------
(* fetchResults: the results of a branch, from the cache or from the network *)

\* const CACHE_DURATION_MS = 5 * 60 * 1000, in minutes
CACHE_DURATION_MS == 5

\* the results a file of the server holds in one of its versions
ResultData(fileName, version) == [file |-> fileName, version |-> version]

\* cacheEntry && (now - cacheEntry.timestamp) < CACHE_DURATION_MS
CacheValid(cacheEntry, t) ==
    ~IsNull(cacheEntry) /\ (t - cacheEntry.timestamp) < CACHE_DURATION_MS

\* the locals of a call of fetchResults: branchId, fileName, now, cacheEntry, and
\* the status of the response ("pending" while there is none)
Frame(branchId, t, cache) ==
    [branchId |-> branchId, fileName |-> FileName(branchId), now |-> t,
     cacheEntry |-> cache[FileName(branchId)], status |-> "pending"]

\* the promise of a call fulfilled with the results
ResolvedWith(data) == [kind |-> "resolved", data |-> data]

\* catch (error): if (cacheEntry) return cacheEntry.data; throw error
StaleOrThrow(frame, error) ==
    IF ~IsNull(frame.cacheEntry) THEN ResolvedWith(frame.cacheEntry.data)
    ELSE Rejected(error)

\* new Error(`Failed to fetch results for ${branchId}: ${response.status}`)
FetchError(branchId, status) ==
    ErrorOf("Error", "Failed to fetch results for " \o branchId \o ": " \o status)

\* resultsCache[fileName] = { data, timestamp: now }
CacheUpdated(cache, frame, data) ==
    [cache EXCEPT ![frame.fileName] = CacheEntry(data, frame.now)]

\* a call of fetchResults(branchId) up to its first await, above the calls in
\* stack: the cached results while the entry is valid, the request otherwise
BeginFetchResults(branchId, stack) ==
    /\ frames' = <<Frame(branchId, now, resultsCache)>> \o stack
    /\ IF CacheValid(resultsCache[FileName(branchId)], now)
       THEN /\ outcome' = ResolvedWith(resultsCache[FileName(branchId)].data)
            /\ pc' = "return"
       ELSE /\ outcome' = Pending
            /\ pc' = "fetching"

\* the frames with the status of the response noted in the innermost
WithStatus(stack, status) == [stack EXCEPT ![1].status = status]

----------------------------------------------------------------------------
(* fetchResults: the inputs *)

\* the clock stops at this minute
MaxClock == 12

\* the versions of a file the server holds over time
MaxVersion == 2

\* the minutes that pass between two looks at the clock
ClockStep == 3

\* the statuses of the responses of the server
ResponseStatuses == {"200", "404", "500"}

----------------------------------------------------------------------------
(* The calls of fetchResults by one caller *)

InitFetch ==
    /\ pc = "idle"
    /\ resultsCache = EmptyCache
    /\ now = 0
    /\ frames = <<>>
    /\ outcome = Pending
    /\ items = <<>>
    /\ state = initialState
    /\ rendered = 0
    /\ lines = <<>>
    /\ blocks = <<>>
    /\ records = <<>>
    /\ idx = 0
    /\ rows = EmptyMarkRows
    /\ response = NoResponse
    /\ students = <<>>
    /\ validation = NullValidation
    /\ analysis = NullAnalysis
    /\ events = <<>>
    /\ aborted = FALSE
    /\ log = <<>>
    /\ pageNum = 0
    /\ totalPages = 0
    /\ yielded = <<>>
    /\ rowTokens = <<>>

FetchFrame ==
    /\ UNCHANGED <<lines, blocks, records, idx, rows, response, students, validation, analysis>>
    /\ UNCHANGED <<events, aborted, log, pageNum, totalPages, yielded, rowTokens>>
    /\ UNCHANGED <<items, state, rendered>>

\* time passes while nothing runs or while the request is under way
Tick ==
    /\ pc \in {"idle", "fetching"}
    /\ now + ClockStep <= MaxClock
    /\ now' = now + ClockStep
    /\ UNCHANGED <<pc, resultsCache, frames, outcome>>
    /\ FetchFrame

\* the caller calls fetchResults(branchId)
CallFetchResults ==
    /\ pc = "idle"
    /\ \E branchId \in BranchIds : BeginFetchResults(branchId, <<>>)
    /\ UNCHANGED <<resultsCache, now>>
    /\ FetchFrame

\* await fetch(`/data/${fileName}`) rejects: the catch block
RequestFails ==
    /\ pc = "fetching"
    /\ frames' = WithStatus(frames, "networkError")
    /\ outcome' = StaleOrThrow(frames[1], ErrorOf("TypeError", "Failed to fetch"))
    /\ pc' = "return"
    /\ UNCHANGED <<resultsCache, now>>
    /\ FetchFrame

\* await fetch(...) resolves with a response: if (!response.ok) the fallback to the
\* default branch on a 404 of another branch, and the throw into the catch block
ResponseArrives ==
    /\ pc = "fetching"
    /\ \E status \in ResponseStatuses :
          IF status = "200"
          THEN /\ frames' = WithStatus(frames, status)
               /\ pc' = "readBody"
               /\ outcome' = outcome
          ELSE IF status = "404" /\ frames[1].branchId # DEFAULT_BRANCH
          THEN BeginFetchResults(DEFAULT_BRANCH, WithStatus(frames, status))
          ELSE /\ frames' = WithStatus(frames, status)
               /\ outcome' = StaleOrThrow(frames[1], FetchError(frames[1].branchId, status))
               /\ pc' = "return"
    /\ UNCHANGED <<resultsCache, now>>
    /\ FetchFrame

\* const data = await response.json(): the cache updated and the data returned, or
\* the catch block when the body is no JSON
JsonRead ==
    /\ pc = "readBody"
    /\ \/ \E version \in 1..MaxVersion :
             /\ resultsCache' = CacheUpdated(resultsCache, frames[1],
                                             ResultData(frames[1].fileName, version))
             /\ outcome' = ResolvedWith(ResultData(frames[1].fileName, version))
       \/ /\ outcome' = StaleOrThrow(frames[1], ErrorOf("SyntaxError", "Unexpected token"))
          /\ resultsCache' = resultsCache
    /\ pc' = "return"
    /\ UNCHANGED <<frames, now>>
    /\ FetchFrame

\* the promise of the outermost call settles as the innermost call has ended
\* (return fetchResults(DEFAULT_BRANCH) hands the promise of the inner call on)
PromiseSettles ==
    /\ pc = "return"
    /\ frames' = <<>>
    /\ pc' = "idle"
    /\ UNCHANGED <<resultsCache, now, outcome>>
    /\ FetchFrame

NextFetch ==
    \/ Tick \/ CallFetchResults \/ RequestFails \/ ResponseArrives \/ JsonRead
    \/ PromiseSettles

SpecFetch == InitFetch /\ [][NextFetch]_vars

----------------------------------------------------------------------------
(* Properties of fetchResults (SpecFetch) *)

\* the request of the call failed: a network error or a status that is not OK
FileRequestFailed(frame) == frame.status \in {"networkError", "404", "500"}

\* the call the caller made: the outermost frame
CallerFrame == frames[Len(frames)]

\* C29: when the request for the file of a branch fails (network error or a status
\* that is not OK) and the cache holds an entry for that file, expired or not,
\* fetchResults resolves with the data of that entry and leaves the cache as it
\* was; it rejects only when the cache holds no entry for that file.
C29_FailedFetchServesTheCachedData ==
    (pc = "return" /\ FileRequestFailed(CallerFrame)) =>
        /\ ~IsNull(CallerFrame.cacheEntry) =>
              /\ outcome = ResolvedWith(CallerFrame.cacheEntry.data)
              /\ \A k \in 1..Len(frames) :
                    resultsCache[frames[k].fileName] = frames[k].cacheEntry
        /\ outcome.kind = "rejected" => IsNull(CallerFrame.cacheEntry)

----------------------------------------------------------------------------
(* useParser: the state of the hook through startParsing, cancelParsing and    *)
(* reset.  setState queues an update; the progress events of the run are the  *)
(* updates of onProgress, taken into the state in their order.                *)

\* the file the user selected and getPdfInfo(file)
SelectedFile == [name |-> "result.pdf"]
SelectedFileInfo == [pageCount |-> 2, fileName |-> "result.pdf"]

\* onProgress: setState(prev => ({ ...prev, progress }))
ProgressTaken(prev, progress) == [prev EXCEPT !.progress = progress]

\* the state after the queued progress updates: every update replaces progress,
\* so the last of the events not yet taken in decides
Rendered(prev, evs, taken) ==
    IF Len(evs) > taken THEN ProgressTaken(prev, evs[Len(evs)]) ELSE prev

\* { ...prev.progress, status }
WithProgressStatus(progress, status) ==
    IF IsNull(progress) THEN [status |-> status]
    ELSE [progress EXCEPT !.status = status]

\* prev.progress ? { ...prev.progress, status } : null
ProgressOrNull(progress, status) ==
    IF IsNull(progress) THEN NoProgress ELSE [progress EXCEPT !.status = status]

\* startParsing without a file: setState(prev => ({ ...prev, error: 'No file selected' }))
NoFileSelected(prev) == [prev EXCEPT !.error = "No file selected"]

\* startParsing: isParsing, the loading progress, no error
ParsingStarted(prev) ==
    [prev EXCEPT !.isParsing = TRUE, !.progress = ProgressEvent("loading", NULL),
                 !.error = NULL]

\* after await parseResultPdf(...): the result taken into the state
ParsingResolved(prev, list, summary) ==
    [prev EXCEPT !.isParsing = FALSE,
                 !.result = [students |-> list, analysis |-> summary],
                 !.students = list,
                 !.analysis = summary,
                 !.progress = WithProgressStatus(prev.progress, "complete")]

\* catch (error): the AbortError branch and the branch of every other error
ParsingRejected(prev, error) ==
    IF IsAbortError(error)
    THEN [prev EXCEPT !.isParsing = FALSE,
                      !.progress = ProgressOrNull(prev.progress, "cancelled")]
    ELSE [prev EXCEPT !.isParsing = FALSE,
                      !.error = error.message,
                      !.progress = ProgressOrNull(prev.progress, "error")]

\* the state after the awaited run has settled
ParsingSettled(prev, settled, list, summary) ==
    IF settled.kind = "resolved" THEN ParsingResolved(prev, list, summary)
    ELSE ParsingRejected(prev, settled.error)

----------------------------------------------------------------------------
(* useParser: the inputs *)

\* calls of startParsing
MaxRuns == 2

\* the positions at which parseResultPdf is suspended in an await
InFlight == {"fetching", "readBody", "readError"}

Started(entries) == Len(SelectSeq(entries, LAMBDA e : e.op = "start"))

----------------------------------------------------------------------------
(* The hook with a selected file *)

InitHook ==
    /\ pc = "idle"
    /\ state = [initialState EXCEPT !.file = SelectedFile, !.fileInfo = SelectedFileInfo]
    /\ rendered = 0
    /\ events = <<>>
    /\ aborted = FALSE
    /\ outcome = Pending
    /\ log = <<>>
    /\ response = NoResponse
    /\ students = <<>>
    /\ analysis = NullAnalysis
    /\ validation = NullValidation
    /\ lines = <<>>
    /\ blocks = <<>>
    /\ records = <<>>
    /\ idx = 0
    /\ rows = EmptyMarkRows
    /\ pageNum = 0
    /\ totalPages = 0
    /\ yielded = <<>>
    /\ rowTokens = <<>>
    /\ items = <<>>
    /\ resultsCache = EmptyCache
    /\ now = 0
    /\ frames = <<>>

HookFrame ==
    /\ UNCHANGED <<lines, blocks, records, idx, rows, validation>>
    /\ UNCHANGED <<pageNum, totalPages, yielded, rowTokens>>
    /\ UNCHANGED <<items, resultsCache, now, frames>>

\* startParsing(): the error without a file; with one, a new AbortController, the
\* loading progress and the call of parseResultPdf
StartParsing ==
    /\ pc \in {"idle", "settled"}
    /\ Started(log) < MaxRuns
    /\ IF IsNull(state.file)
       THEN /\ state' = NoFileSelected(Rendered(state, events, rendered))
            /\ rendered' = Len(events)
            /\ log' = Append(log, LogEntry("start", "noFile"))
            /\ UNCHANGED <<pc, events, aborted, outcome, response, students, analysis>>
       ELSE /\ state' = ParsingStarted(Rendered(state, events, rendered))
            /\ rendered' = 0
            /\ events' = <<>>
            /\ aborted' = FALSE
            /\ outcome' = Pending
            /\ response' = NoResponse
            /\ students' = <<>>
            /\ analysis' = NullAnalysis
            /\ log' = Append(log, LogEntry("start", "call"))
            /\ pc' = "call"
    /\ HookFrame

\* React takes the queued progress updates into the state
Render ==
    /\ rendered < Len(events)
    /\ state' = Rendered(state, events, rendered)
    /\ rendered' = Len(events)
    /\ UNCHANGED <<pc, events, aborted, outcome, log, response, students, analysis>>
    /\ HookFrame

\* the continuation of await parseResultPdf(...) in startParsing
ParsingSettles ==
    /\ pc = "done"
    /\ state' = ParsingSettled(Rendered(state, events, rendered), outcome, students, analysis)
    /\ rendered' = Len(events)
    /\ pc' = "settled"
    /\ UNCHANGED <<events, aborted, outcome, log, response, students, analysis>>
    /\ HookFrame

\* the log after reset() at this position: the abort of the signal, when a
\* controller is there, and the reset
LogOfReset(entries, at, abortNow) ==
    IF at \in InFlight /\ (abortNow \/ entries[Len(entries)] # LogEntry("reset", at))
    THEN (IF abortNow THEN Append(entries, LogEntry("abort", at)) ELSE entries)
         \o <<LogEntry("reset", at)>>
    ELSE entries

\* reset(): cancelParsing(), which aborts the controller of the run, if there is
\* one, and setState(initialState)
Reset ==
    /\ pc \in InFlight \cup {"idle", "settled"}
    /\ aborted' = (aborted \/ Logged("start", "call"))
    /\ log' = LogOfReset(log, pc, ~aborted)
    /\ state' = initialState
    /\ rendered' = Len(events)
    /\ UNCHANGED <<pc, events, outcome, response, students, analysis>>
    /\ HookFrame

\* parseResultPdf, as started by startParsing, and cancelParsing() while it is
\* suspended
RunStep ==
    \/ EmitExtracting \/ CheckCancelled \/ SendRequest \/ Abort
    \/ FetchRejects \/ FetchResolves \/ ReadErrorBody \/ ReadBody
    \/ EmitAnalyzing \/ MapResponse \/ EmitComplete \/ Catch

NextHook == StartParsing \/ RunStep \/ Render \/ ParsingSettles \/ Reset

SpecHook == InitHook /\ [][NextHook]_vars

----------------------------------------------------------------------------
(* Properties of the hook (SpecHook) *)

\* reset() was called while the parse was in flight, and neither startParsing nor
\* reset has been called since
ResetInFlight ==
    \E k \in 1..Len(log) :
        /\ log[k].op = "reset"
        /\ \A m \in (k + 1)..Len(log) : log[m].op \notin {"start", "reset"}

\* C30: after reset() during a parse in flight, the state of the hook is the
\* initial state once the cancelled parse has settled, and no callback of the
\* cancelled run (progress event, result, error) puts anything back into it.
C30_ResetStateSurvivesTheCancelledRun ==
    (ResetInFlight /\ rendered = Len(events)) => state = initialState


====
